---- MODULE Spec2Model ----
(***************************************************************************)
(* Citation viewer: the active-citation controller (Home), the paged PDF   *)
(* renderer (PdfViewer) and the text / markdown renderer (TextViewer).     *)
(*                                                                         *)
(* One step of the model is one JavaScript task: a user-event handler, a   *)
(* promise continuation, a timer callback or an animation-frame callback,  *)
(* together with the React render and the effects (clean-ups first, then   *)
(* the effects in declaration order) that the task's state updates cause.  *)
(* Object identity matters to React's dependency comparison, so the active *)
(* citation and the rendered dimensions carry a reference number.          *)
(***************************************************************************)
EXTENDS Integers, Sequences, FiniteSets, TLC

VARIABLES
    data,               \* Home.data: NoData while null, else the payload loaded
    activeSourceId,     \* Home.activeSourceId
    currentPage,        \* Home.currentPage
    activeCitation,     \* Home.activeCitation (NoCitation = null)
    activeRef,          \* identity of the object held by activeCitation (0 = null)
    switched,           \* history: the click that set activeCitation changed the source
    pdf,                \* the PdfViewer instance, its pending callbacks and canvases
    txt,                \* the TextViewer instance, its pending callbacks and DOM
    lastEvent,          \* the task that produced the current state
    call,               \* a call of one of the pure functions: its arguments
    ret                 \* what that call returned (NoRet before it returns)

vars == <<data, activeSourceId, currentPage, activeCitation, activeRef, switched,
          pdf, txt, lastEvent, call, ret>>

-----------------------------------------------------------------------------
(* Bounds and payload                                                      *)

\* animation frames of one fade (the code takes 1 / 0.02 = 50 frames)
FadeFrames == 2
\* pages of the first PDF source
PagesA == 2

None == "none"
Undef == -1
NoCitation == [type |-> "none"]
NullDims == 0
OpacityFull == FadeFrames

SrcA == [id |-> "A", file |-> "a.pdf", type |-> "pdf",  pageCount |-> PagesA]
SrcB == [id |-> "B", file |-> "b.pdf", type |-> "pdf",  pageCount |-> 1]
SrcT == [id |-> "T", file |-> "t.txt", type |-> "text", pageCount |-> 1]
SrcM == [id |-> "M", file |-> "m.md",  type |-> "md",   pageCount |-> 1]
SrcC == [id |-> "C", file |-> "c.pdf", type |-> "pdf",  pageCount |-> 1]
SrcN == [id |-> "N", file |-> "n.md",  type |-> "md",   pageCount |-> 1]

\* the payload served at /data/data.json: two PDF sources, a plain-text source
\* and a markdown source
Payload == [sources |-> <<SrcA, SrcB, SrcT, SrcM>>]

\* a payload with a one-page PDF source C, one of whose citations names page 2
PayloadBeyond == [sources |-> <<SrcA, SrcC>>]

\* a payload with a markdown source N of two tables
PayloadTables == [sources |-> <<SrcN>>]

\* data === null (data?.sources is undefined)
NoData == [sources |-> <<>>]

Sources(d) == d.sources

SourceIds(d) == {Sources(d)[i].id : i \in DOMAIN Sources(d)}

NoSource == [id |-> None, file |-> None, type |-> None, pageCount |-> 0]

\* data?.sources.find((s) => s.id === activeSourceId)
FindSource(d, sid) ==
    IF sid \in SourceIds(d)
    THEN CHOOSE s \in {Sources(d)[i] : i \in DOMAIN Sources(d)} : s.id = sid
    ELSE NoSource

\* activeSource of the current render
ActiveSource == FindSource(data, activeSourceId)

BBox(l, t) == [left |-> l, top |-> t, width |-> 2, height |-> 1]

PdfCitations ==
    {[type |-> "pdf", sourceId |-> "A", page |-> p, bbox |-> BBox(p, 1)] : p \in 1..PagesA}
    \cup {[type |-> "pdf", sourceId |-> "B", page |-> 1, bbox |-> BBox(1, 2)]}
    \cup {[type |-> "pdf", sourceId |-> "C", page |-> p, bbox |-> BBox(p, 2)] :
             p \in 1..(SrcC.pageCount + 1)}

TextCitations ==
    {[type |-> "text", sourceId |-> "T", startOffset |-> 1, endOffset |-> 3,
      snippet |-> <<"b", "c">>]}

MdCitations ==
    {[type |-> "md", sourceId |-> "M", snippet |-> <<"r", "1">>, tableIndex |-> 0,
      startRow |-> 1, endRow |-> Undef, startCol |-> Undef, endCol |-> Undef],
     [type |-> "md", sourceId |-> "M", snippet |-> <<"x", "y">>, tableIndex |-> Undef,
      startRow |-> Undef, endRow |-> Undef, startCol |-> Undef, endCol |-> Undef]}

\* table citations of source N: tables 0 and 1 exist, table 2 does not; rows
\* and columns inside and beyond the tables, each optional index given or not
TableCitations ==
    {[type |-> "md", sourceId |-> "N", snippet |-> <<"x", "y">>, tableIndex |-> ti,
      startRow |-> rs[1], endRow |-> rs[2], startCol |-> cs[1], endCol |-> cs[2]] :
        ti \in 0..2,
        rs \in {<<Undef, Undef>>, <<1, Undef>>, <<0, 1>>, <<1, 3>>},
        cs \in {<<Undef, Undef>>, <<1, Undef>>, <<0, 2>>}}
    \cup {[type |-> "md", sourceId |-> "N", snippet |-> <<"x", "y">>,
             tableIndex |-> Undef, startRow |-> Undef, endRow |-> Undef,
             startCol |-> Undef, endCol |-> Undef]}

\* citations of sources the payload does not have: an id no source carries and
\* an id that is the name of a property every JavaScript object inherits
StrayCitations ==
    {[type |-> "pdf", sourceId |-> sid, page |-> 1, bbox |-> BBox(1, 3)] :
        sid \in {"Z", "constructor"}}

\* the payload of the one-page source B whose fields also cite sources that
\* are not in it
PayloadStray == [sources |-> <<SrcB>>, citations |-> StrayCitations]

\* the citations a payload's fields carry beside those of the sources above
FieldCitations(d) == IF "citations" \in DOMAIN d THEN d.citations ELSE {}

\* names for which sourceMap[name] is an inherited property of the object
\* Object.fromEntries returns, whatever the sources are
ObjectPrototypeKeys ==
    {"constructor", "hasOwnProperty", "toString", "valueOf", "__proto__"}

\* sourceMap[citation.sourceId] is truthy: the badge is rendered
HasBadge(d, c) == c.sourceId \in SourceIds(d) \cup ObjectPrototypeKeys

\* the citations of the payload's fields that get a badge
Citations ==
    {c \in PdfCitations \cup TextCitations \cup MdCitations \cup TableCitations
            \cup FieldCitations(data) :
        HasBadge(data, c)}

\* text served for a file (PDF files are binary: numPages is all the model keeps)
FileText(f) ==
    CASE f = "t.txt" -> <<"a", "b", "c", "d">>
      [] f = "m.md"  -> <<"x", "y", "|", "r", "1", "|">>
      [] f = "n.md"  -> <<"x", "y", "|", "n", "|", "x", "y", "|", "|">>
      [] OTHER       -> <<>>

\* pdfDoc.numPages of the document loaded from a file
NumPages(f) ==
    CASE f = "a.pdf" -> PagesA
      [] f = "b.pdf" -> 1
      [] f = "c.pdf" -> 1
      [] OTHER       -> 0

-----------------------------------------------------------------------------
(* Home: derived values of one render                                      *)

\* sourceType / isTextSource: which viewer Home mounts
ViewerKind(s) ==
    IF s.id = None THEN None
    ELSE IF s.type \in {"text", "csv", "md"} THEN "text" ELSE "pdf"

\* activePdfCitation
ActivePdfCitation(ac, sid) ==
    IF ac.type = "pdf" /\ ac.sourceId = sid THEN ac ELSE NoCitation

\* activeViewerCitation
ActiveViewerCitation(ac, sid) ==
    IF ac.type \in {"text", "md"} /\ ac.sourceId = sid THEN ac ELSE NoCitation

\* the props Home passes to PdfViewer, with the state its effects depend on
\* (resized: whether containerWidth differs from that of the previous render;
\* the width itself is read by no condition of the component and is not kept)
PdfDeps(v, src, page, ac, ref) ==
    LET a == ActivePdfCitation(ac, src.id)
    IN  [file |-> src.file, page |-> page,
         ac |-> a, ref |-> IF a = NoCitation THEN 0 ELSE ref,
         pdfDoc |-> v.pdfDoc, dims |-> v.renderedDimensions,
         resized |-> FALSE, error |-> v.error]

-----------------------------------------------------------------------------
(* PdfViewer                                                               *)

NoTask == [doc |-> None, page |-> 0]
BlankCanvas == [doc |-> None, page |-> 0]
BlankOverlay == [cit |-> NoCitation, opacity |-> 0]
NoTimer == [ref |-> 0, cit |-> NoCitation, dims |-> NullDims]
NoLoop == [ref |-> 0, cit |-> NoCitation, opacity |-> 0]

\* useState / useRef initial values of a PdfViewer that is not mounted; loads and
\* renders are the promise continuations still pending (they outlive the instance)
PdfUnmounted(loads, renders) ==
    [mounted |-> FALSE, loading |-> TRUE, error |-> None, pdfDoc |-> None,
     renderedDimensions |-> NullDims, renderTaskRef |-> NoTask,
     loads |-> loads, renders |-> renders,
     canvas |-> BlankCanvas, overlay |-> BlankOverlay,
     fadeTimer |-> NoTimer, fadeLoop |-> NoLoop]

\* a new object identity for setRenderedDimensions({...})
FreshDims(v) ==
    CHOOSE n \in 1..3 :
        /\ n \notin {v.renderedDimensions, v.fadeTimer.dims}
        /\ \A m \in 1..(n - 1) : m \in {v.renderedDimensions, v.fadeTimer.dims}

\* the canvases exist only while the error message is not shown
\* (error ? <div>{error}</div> : <canvas/><canvas/>): a fade loop that holds the
\* context of a removed overlay canvas can no longer change what is shown
Elements(v) ==
    IF v.error # None
    THEN [v EXCEPT !.canvas = BlankCanvas, !.overlay = BlankOverlay, !.fadeLoop = NoLoop]
    ELSE v

\* load effect, clean-up: cancelled = true.  The continuation of a superseded
\* loadPdf() call reads only its cancelled flag, so that is all the model keeps of it
LoadCleanup(v) ==
    [v EXCEPT !.loads = {[file |-> None, cancelled |-> TRUE] : l \in @}]

\* load effect, body: loadPdf() up to its first await
LoadEffect(v, file) ==
    [v EXCEPT !.loading = TRUE, !.error = None, !.pdfDoc = None,
              !.loads = @ \cup {[file |-> file, cancelled |-> FALSE]}]

\* CancelTask as it would be without the cancel() calls: the running task is left
\* to finish on the canvas
CancelTaskLeftRunning(v) == v

\* renderTaskRef.current.cancel(); renderTaskRef.current = null
\* (pdf.js rejects the promise of a cancelled, still running task)
CancelTask(v) ==
    [v EXCEPT !.renders = {IF /\ r.stage = "task"
                              /\ r.doc = v.renderTaskRef.doc
                              /\ r.page = v.renderTaskRef.page
                           THEN [r EXCEPT !.stage = "rejected"] ELSE r : r \in @},
              !.renderTaskRef = NoTask]

\* a superseded renderPage() call: its continuation reads only its cancelled flag
\* and the way its promise settles, so that is all the model keeps of it
Superseded(r) == [doc |-> None, page |-> 0, stage |-> r.stage, cancelled |-> TRUE]

\* render effect, clean-up: cancelled = true, then the running task is cancelled
RenderCleanup(v) ==
    LET c == CancelTask([v EXCEPT !.renders = {[r EXCEPT !.cancelled = TRUE] : r \in @}])
    IN  [c EXCEPT !.renders = {Superseded(r) : r \in @}]

\* the render effect as it would be without the guard on the page number
RenderEffectAnyPage(v, pdfDoc, page, canvasMounted) ==
    IF pdfDoc = None THEN v
    ELSE LET v1 == CancelTask(v)
         IN  IF ~canvasMounted THEN v1
             ELSE [v1 EXCEPT !.error = None, !.loading = TRUE,
                             !.renders = @ \cup {[doc |-> pdfDoc, page |-> page,
                                                  stage |-> "getPage",
                                                  cancelled |-> FALSE]}]

\* render effect, body: up to the first await of renderPage()
RenderEffect(v, pdfDoc, page, canvasMounted) ==
    IF pdfDoc = None THEN v
    ELSE LET v1 == CancelTask(v)
         IN  IF ~canvasMounted \/ page < 1 \/ page > NumPages(pdfDoc) THEN v1
             ELSE [v1 EXCEPT !.error = None, !.loading = TRUE,
                             !.renders = @ \cup {[doc |-> pdfDoc, page |-> page,
                                                  stage |-> "getPage",
                                                  cancelled |-> FALSE]}]

\* drawOverlay with the values of render d
DrawOverlay(v, d) ==
    IF d.error # None \/ d.dims = NullDims THEN v
    ELSE IF d.ac = NoCitation \/ d.ac.page # d.page
         THEN [v EXCEPT !.overlay = BlankOverlay]
         ELSE [v EXCEPT !.overlay = [cit |-> d.ac, opacity |-> OpacityFull]]

\* fade effect, clean-up: clearTimeout(timer)
FadeCleanup(v) == [v EXCEPT !.fadeTimer = NoTimer]

\* fade effect, body: setTimeout(..., 15000) closing over the values of render d
FadeEffect(v, d) ==
    IF d.ac = NoCitation \/ d.ac.page # d.page THEN v
    ELSE [v EXCEPT !.fadeTimer = [ref |-> d.ref, cit |-> d.ac, dims |-> d.dims]]

\* One commit of a mounted PdfViewer: old and new are the dependency values of the
\* previous and of this render, v the state after the task's own setState calls.
\* The load effect's setPdfDoc(null) causes a second render, in which the render
\* effect is cleaned up and returns at once.
PdfCommit(v, old, new) ==
    LET fileCh   == old.file # new.file
        renderCh == <<old.pdfDoc, old.page>> # <<new.pdfDoc, new.page>> \/ new.resized
        drawCh   == <<old.ref, old.page, old.dims>> # <<new.ref, new.page, new.dims>>
        c1 == IF fileCh THEN LoadCleanup(v) ELSE v
        c2 == IF renderCh /\ old.pdfDoc # None THEN RenderCleanup(c1) ELSE c1
        c3 == IF drawCh THEN FadeCleanup(c2) ELSE c2
        e1 == IF fileCh THEN LoadEffect(c3, new.file) ELSE c3
        e2 == IF renderCh THEN RenderEffect(e1, new.pdfDoc, new.page, new.error = None)
              ELSE e1
        e3 == IF drawCh THEN DrawOverlay(e2, new) ELSE e2
        e4 == IF drawCh THEN FadeEffect(e3, new) ELSE e3
        e5 == IF fileCh /\ new.pdfDoc # None THEN RenderCleanup(e4) ELSE e4
    IN  Elements(e5)

\* Object identities are compared, never read: at the end of a task they are
\* renumbered, 1 for the object that is current (cur) and 2 for any earlier one
Renumber(id, cur) == IF id = 0 THEN 0 ELSE IF id = cur THEN 1 ELSE 2

\* the PdfViewer after a task, with the identities it holds renumbered
\* (ref: the identity of the activeCitation object passed by Home)
PdfSettle(v, ref) ==
    [v EXCEPT !.renderedDimensions = Renumber(@, v.renderedDimensions),
              !.fadeTimer.dims = Renumber(@, v.renderedDimensions),
              !.fadeTimer.ref = Renumber(@, ref),
              !.fadeLoop.ref = Renumber(@, ref)]

\* mounting: every effect runs once with the initial state
PdfMount(v, src, page, ac, ref) ==
    LET v0 == [PdfUnmounted(v.loads, v.renders) EXCEPT !.mounted = TRUE]
        d  == PdfDeps(v0, src, page, ac, ref)
    IN  FadeEffect(DrawOverlay(RenderEffect(LoadEffect(v0, d.file), None, page, TRUE), d), d)

\* unmounting: every clean-up runs, the state and the canvases are dropped
PdfUnmount(v) ==
    LET l == LoadCleanup(v)
        c == FadeCleanup(IF v.pdfDoc # None THEN RenderCleanup(l) ELSE l)
    IN  PdfUnmounted(c.loads, c.renders)

-----------------------------------------------------------------------------
(* TextViewer                                                              *)

NoTextTimer == None

\* useState / useRef initial values of a TextViewer that is not mounted
TxtUnmounted ==
    [mounted |-> FALSE, content |-> <<>>, loading |-> TRUE, error |-> None,
     fading |-> FALSE, fadeTimerRef |-> NoTextTimer, fetches |-> {},
     raf |-> NoCitation, hl |-> {}, fadingEls |-> {}]

\* the props Home passes to TextViewer
TxtDeps(src, ac, ref) ==
    LET a == ActiveViewerCitation(ac, src.id)
    IN  [file |-> src.file, fileType |-> src.type,
         ac |-> a, ref |-> IF a = NoCitation THEN 0 ELSE ref]

\* which of the four return statements of TextViewer renders
TxtView(v, fileType) ==
    IF v.loading THEN "loading"
    ELSE IF v.error # None THEN "error"
    ELSE IF fileType = "md" THEN "md" ELSE "text"

\* the tables ReactMarkdown renders for a markdown text: for each table the
\* number of cells of each row (rows and cells are addressed from 0)
MdTables(content) ==
    IF content = FileText("m.md") THEN << <<2, 2, 2>> >>
    ELSE IF content = FileText("n.md") THEN << <<2, 2, 2>>, <<2, 1>> >>
    ELSE <<>>

\* the <tr> (c = Undef) and <th>/<td> elements of the rendered tables
TableElements(tables) ==
    UNION {{[t |-> t, r |-> r, c |-> Undef] : r \in 0..(Len(tables[t + 1]) - 1)} :
              t \in 0..(Len(tables) - 1)}
    \cup UNION {UNION {{[t |-> t, r |-> r, c |-> c] :
                          c \in 0..(tables[t + 1][r + 1] - 1)} :
                      r \in 0..(Len(tables[t + 1]) - 1)} :
                  t \in 0..(Len(tables) - 1)}

\* content.indexOf(snippet) !== -1
Occurs(snippet, content) ==
    \E i \in 0..(Len(content) - Len(snippet)) :
        SubSeq(content, i + 1, i + Len(snippet)) = snippet

Min(a, b) == IF a < b THEN a ELSE b
Max(a, b) == IF a > b THEN a ELSE b

\* the <mark> of text / csv mode is rendered (highlighted is not empty)
TextMarkShown(v, d) ==
    /\ TxtView(v, d.fileType) = "text"
    /\ d.ac.type = "text"
    /\ LET start == Max(0, Min(d.ac.startOffset, Len(v.content)))
           end   == Max(start, Min(d.ac.endOffset, Len(v.content)))
       IN  start < end

\* the <mark id="md-text-cite"> injected by processedContent is rendered
MdMarkShown(v, d) ==
    /\ TxtView(v, d.fileType) = "md"
    /\ d.ac.type = "md"
    /\ d.ac.tableIndex = Undef
    /\ Occurs(d.ac.snippet, v.content)

\* classes added through classList live on the table elements: they go when the
\* elements leave the DOM
TxtDom(v, fileType) ==
    LET els == IF TxtView(v, fileType) = "md"
               THEN TableElements(MdTables(v.content)) ELSE {}
    IN  [v EXCEPT !.hl = @ \cap els, !.fadingEls = @ \cap els]

\* fetch effect: setLoading(true); setError(null); fetch(file)
FetchEffect(v, file) ==
    [v EXCEPT !.loading = TRUE, !.error = None, !.fetches = @ \cup {file}]

\* clean-ups of the two highlight effects: cancelAnimationFrame, clearTimeout
TxtCleanup(v) == [v EXCEPT !.fadeTimerRef = NoTextTimer, !.raf = NoCitation]

\* scroll / fade effect of text and csv mode; markInDom is highlightRef.current
TextEffect(v, d, markInDom) ==
    IF d.fileType = "md" THEN v
    ELSE LET v1 == [v EXCEPT !.fading = FALSE, !.fadeTimerRef = NoTextTimer]
         IN  IF d.ac # NoCitation /\ markInDom
             THEN [v1 EXCEPT !.fadeTimerRef = "setFading"]
             ELSE v1

\* highlight effect of md mode; containerInDom is mdContainerRef.current
MdEffect(v, d, containerInDom) ==
    IF d.fileType # "md" \/ ~containerInDom THEN v
    ELSE LET v1 == [v EXCEPT !.hl = {}, !.fading = FALSE,
                             !.fadeTimerRef = NoTextTimer]
         IN  IF d.ac = NoCitation \/ d.ac.type # "md" THEN v1
             ELSE IF d.ac.tableIndex # Undef
                  THEN [v1 EXCEPT !.raf = d.ac, !.fadeTimerRef = "tableFading"]
                  ELSE [v1 EXCEPT !.fadeTimerRef = "setFading"]

\* the animation-frame callback as it would be if the row range excluded
\* its end
TableTargetsEndExcluded(ac, tables) ==
    IF ac.tableIndex < 0 \/ ac.tableIndex >= Len(tables) THEN {}
    ELSE LET rows == tables[ac.tableIndex + 1]
             r0 == IF ac.startRow = Undef THEN 0 ELSE ac.startRow
             r1 == IF ac.endRow = Undef THEN r0 ELSE ac.endRow - 1
             c0 == ac.startCol
             c1 == IF ac.endCol = Undef THEN c0 ELSE ac.endCol
         IN  IF ac.startCol # Undef
             THEN UNION {{[t |-> ac.tableIndex, r |-> r, c |-> c] :
                             c \in {y \in c0..c1 : y >= 0 /\ y < rows[r + 1]}} :
                         r \in {x \in r0..r1 : x >= 0 /\ x < Len(rows)}}
             ELSE {[t |-> ac.tableIndex, r |-> r, c |-> Undef] :
                      r \in {x \in r0..r1 : x >= 0 /\ x < Len(rows)}}

\* the animation-frame callback as it would be if a column range marked the
\* rows as well as the cells
TableTargetsRowsToo(ac, tables) ==
    IF ac.tableIndex < 0 \/ ac.tableIndex >= Len(tables) THEN {}
    ELSE LET rows == tables[ac.tableIndex + 1]
             r0 == IF ac.startRow = Undef THEN 0 ELSE ac.startRow
             r1 == IF ac.endRow = Undef THEN r0 ELSE ac.endRow
             c0 == ac.startCol
             c1 == IF ac.endCol = Undef THEN c0 ELSE ac.endCol
         IN  {[t |-> ac.tableIndex, r |-> r, c |-> Undef] :
                 r \in {x \in r0..r1 : x >= 0 /\ x < Len(rows)}}
             \cup IF ac.startCol # Undef
                  THEN UNION {{[t |-> ac.tableIndex, r |-> r, c |-> c] :
                                  c \in {y \in c0..c1 : y >= 0 /\ y < rows[r + 1]}} :
                              r \in {x \in r0..r1 : x >= 0 /\ x < Len(rows)}}
                  ELSE {}

\* the table elements the animation-frame callback marks for citation ac
TableTargets(ac, tables) ==
    IF ac.tableIndex < 0 \/ ac.tableIndex >= Len(tables) THEN {}
    ELSE LET rows == tables[ac.tableIndex + 1]
             r0 == IF ac.startRow = Undef THEN 0 ELSE ac.startRow
             r1 == IF ac.endRow = Undef THEN r0 ELSE ac.endRow
             c0 == ac.startCol
             c1 == IF ac.endCol = Undef THEN c0 ELSE ac.endCol
         IN  IF ac.startCol # Undef
             THEN UNION {{[t |-> ac.tableIndex, r |-> r, c |-> c] :
                             c \in {y \in c0..c1 : y >= 0 /\ y < rows[r + 1]}} :
                         r \in {x \in r0..r1 : x >= 0 /\ x < Len(rows)}}
             ELSE {[t |-> ac.tableIndex, r |-> r, c |-> Undef] :
                      r \in {x \in r0..r1 : x >= 0 /\ x < Len(rows)}}

\* One commit of a mounted TextViewer: old and new are the props of the previous
\* and of this render, v the state this render reads.  The fetch effect's
\* setLoading(true) causes a second render, which shows the spinner.
TxtCommit(v, old, new) ==
    LET fileCh == old.file # new.file
        citCh  == <<old.ref, old.fileType>> # <<new.ref, new.fileType>>
        d0 == TxtDom(v, new.fileType)
        c1 == IF citCh THEN TxtCleanup(d0) ELSE d0
        e1 == IF fileCh THEN FetchEffect(c1, new.file) ELSE c1
        e2 == IF citCh THEN TextEffect(e1, new, TextMarkShown(v, new)) ELSE e1
        e3 == IF citCh THEN MdEffect(e2, new, TxtView(v, new.fileType) = "md") ELSE e2
    IN  TxtDom(e3, new.fileType)

\* mounting: the first render shows the spinner, then every effect runs once
TxtMount(src, ac, ref) ==
    LET v0 == [TxtUnmounted EXCEPT !.mounted = TRUE]
        d  == TxtDeps(src, ac, ref)
    IN  MdEffect(TextEffect(FetchEffect(v0, d.file), d, FALSE), d, FALSE)

\* unmounting: the clean-ups run; the pending fetches set the state of an
\* instance that no longer exists
TxtUnmount(v) == TxtUnmounted

-----------------------------------------------------------------------------
(* Home: state, handlers and the render they cause                         *)

\* lastEvent: the kind of the task and one fact about the state it started in
\* (continuations: the operation was superseded; fade frames: the loop belongs
\* to another activation than the current one; page and source changes: a
\* citation was active; citation clicks: the source was not the displayed one)
Event(kind, flag) == [kind |-> kind, flag |-> flag]

\* a new object identity for the literal passed to setActiveCitation
FreshRef ==
    LET live == {activeRef, pdf.fadeTimer.ref, pdf.fadeLoop.ref}
    IN  CHOOSE n \in 1..3 : n \notin live /\ \A m \in 1..(n - 1) : m \in live

\* the active citation as it would be if the md branch copied the table
\* region only
ToActiveRegionOnly(c) ==
    IF c.type = "pdf"
    THEN [type |-> "pdf", sourceId |-> c.sourceId, page |-> c.page, bbox |-> c.bbox]
    ELSE IF c.type = "text"
    THEN [type |-> "text", sourceId |-> c.sourceId, startOffset |-> c.startOffset,
          endOffset |-> c.endOffset]
    ELSE [type |-> "md", sourceId |-> c.sourceId,
          tableIndex |-> c.tableIndex, startRow |-> c.startRow, endRow |-> c.endRow,
          startCol |-> c.startCol, endCol |-> c.endCol]

\* the object handleCitationClick passes to setActiveCitation
ToActive(c) ==
    IF c.type = "pdf"
    THEN [type |-> "pdf", sourceId |-> c.sourceId, page |-> c.page, bbox |-> c.bbox]
    ELSE IF c.type = "text"
    THEN [type |-> "text", sourceId |-> c.sourceId, startOffset |-> c.startOffset,
          endOffset |-> c.endOffset]
    ELSE [type |-> "md", sourceId |-> c.sourceId, snippet |-> c.snippet,
          tableIndex |-> c.tableIndex, startRow |-> c.startRow, endRow |-> c.endRow,
          startCol |-> c.startCol, endCol |-> c.endCol]

\* Home renders with payload d and the new state: the viewer of the displayed
\* source's kind is kept, mounted or replaced, and its effects run
HomeRender(d, sid, page, ac, ref) ==
    LET s1 == ActiveSource
        s2 == FindSource(d, sid)
        k1 == ViewerKind(s1)
        k2 == ViewerKind(s2)
    IN  /\ pdf' = IF k2 = "pdf"
                  THEN IF k1 = "pdf"
                       THEN PdfSettle(PdfCommit(pdf,
                                PdfDeps(pdf, s1, currentPage, activeCitation, activeRef),
                                PdfDeps(pdf, s2, page, ac, ref)), ref)
                       ELSE PdfSettle(PdfMount(pdf, s2, page, ac, ref), ref)
                  ELSE IF k1 = "pdf" THEN PdfUnmount(pdf) ELSE pdf
        /\ txt' = IF k2 = "text"
                  THEN IF k1 = "text"
                       THEN TxtCommit(txt,
                                TxtDeps(s1, activeCitation, activeRef),
                                TxtDeps(s2, ac, ref))
                       ELSE TxtMount(s2, ac, ref)
                  ELSE IF k1 = "text" THEN TxtUnmount(txt) ELSE txt

\* no function call is followed: the application runs
NoCall == [fn |-> "none"]
NoRet == [fn |-> "none"]

\* the application before its first task
HomeInit ==
    /\ data = NoData
    /\ activeSourceId = ""
    /\ currentPage = 1
    /\ activeCitation = NoCitation
    /\ activeRef = 0
    /\ switched = FALSE
    /\ pdf = PdfUnmounted({}, {})
    /\ txt = TxtUnmounted
    /\ lastEvent = Event("init", FALSE)

Init ==
    /\ call = NoCall
    /\ ret = NoRet
    /\ HomeInit

\* fetch("/data/data.json") resolves with payload d:
\* setData(d); setActiveSourceId(d.sources[0].id)
DataLoaded(d) ==
    /\ data = NoData
    /\ data' = d
    /\ activeSourceId' = IF Len(Sources(d)) > 0 THEN Sources(d)[1].id ELSE activeSourceId
    /\ UNCHANGED <<currentPage, activeCitation, activeRef, switched, call, ret>>
    /\ HomeRender(d, activeSourceId', currentPage, activeCitation, activeRef)
    /\ lastEvent' = Event("dataLoaded", FALSE)

handleSourceChange(sourceId) ==
    /\ activeSourceId' = sourceId
    /\ currentPage' = 1
    /\ activeCitation' = NoCitation
    /\ activeRef' = 0
    /\ switched' = FALSE
    /\ HomeRender(data, sourceId, 1, NoCitation, 0)

\* handleCitationClick as it would be if it set the citation and the source but
\* left the page to a later update
handleCitationClickPageLater(citation) ==
    /\ activeSourceId' = IF citation.sourceId # activeSourceId
                         THEN citation.sourceId ELSE activeSourceId
    /\ currentPage' = currentPage
    /\ activeCitation' = ToActive(citation)
    /\ activeRef' = Renumber(FreshRef, FreshRef)
    /\ switched' = (citation.sourceId # activeSourceId)
    /\ HomeRender(data, activeSourceId', currentPage', activeCitation', FreshRef)

handleCitationClick(citation) ==
    /\ activeSourceId' = IF citation.sourceId # activeSourceId
                         THEN citation.sourceId ELSE activeSourceId
    /\ currentPage' = IF citation.type = "pdf" THEN citation.page ELSE 1
    /\ activeCitation' = ToActive(citation)
    /\ activeRef' = Renumber(FreshRef, FreshRef)
    /\ switched' = (citation.sourceId # activeSourceId)
    /\ HomeRender(data, activeSourceId', currentPage', activeCitation', FreshRef)

\* handlePageChange as it would be without setActiveCitation(null)
handlePageChangeKeeping(page) ==
    /\ currentPage' = page
    /\ UNCHANGED <<activeSourceId, activeCitation, activeRef, switched>>
    /\ HomeRender(data, activeSourceId, page, activeCitation, activeRef)

handlePageChange(page) ==
    /\ currentPage' = page
    /\ activeCitation' = NoCitation
    /\ activeRef' = 0
    /\ switched' = FALSE
    /\ UNCHANGED activeSourceId
    /\ HomeRender(data, activeSourceId, page, NoCitation, 0)

\* a source tab (or dropdown entry) is clicked
SourceTabClick ==
    /\ data # NoData
    /\ \E s \in SourceIds(data) : handleSourceChange(s)
    /\ lastEvent' = Event("sourceChange", activeCitation # NoCitation)
    /\ UNCHANGED <<data, call, ret>>

\* a citation badge of the data panel is clicked
BadgeClick ==
    /\ data # NoData
    /\ \E c \in Citations :
          /\ handleCitationClick(c)
          /\ lastEvent' = Event("citationClick", c.sourceId # activeSourceId)
    /\ UNCHANGED <<data, call, ret>>

\* the Prev button of the PdfViewer (disabled when page <= 1)
PrevClick ==
    /\ pdf.mounted
    /\ ~(currentPage <= 1)
    /\ handlePageChange(Max(1, currentPage - 1))
    /\ lastEvent' = Event("pageChange", activeCitation # NoCitation)
    /\ UNCHANGED <<data, call, ret>>

\* the Next button of the PdfViewer (disabled when page >= pageCount)
NextClick ==
    /\ pdf.mounted
    /\ ~(currentPage >= ActiveSource.pageCount)
    /\ handlePageChange(Min(ActiveSource.pageCount, currentPage + 1))
    /\ lastEvent' = Event("pageChange", activeCitation # NoCitation)
    /\ UNCHANGED <<data, call, ret>>

home == <<data, activeSourceId, currentPage, activeCitation, activeRef, switched>>

-----------------------------------------------------------------------------
(* PdfViewer: promise continuations, timer and animation-frame callbacks   *)

\* the render that follows a state change of the PdfViewer alone
PdfRerender(v) ==
    pdf' = PdfSettle(PdfCommit(v,
                  PdfDeps(pdf, ActiveSource, currentPage, activeCitation, activeRef),
                  PdfDeps(v, ActiveSource, currentPage, activeCitation, activeRef)),
               activeRef)

\* getDocument(file).promise resolves
PdfLoadResolve ==
    /\ \E l \in pdf.loads :
          /\ PdfRerender(IF l.cancelled
                         THEN [pdf EXCEPT !.loads = @ \ {l}]
                         ELSE [pdf EXCEPT !.loads = @ \ {l}, !.pdfDoc = l.file])
          /\ lastEvent' = Event("loadSettled", l.cancelled)
    /\ UNCHANGED <<home, txt, call, ret>>

\* import("pdfjs-dist") or getDocument(file).promise rejects
PdfLoadReject ==
    /\ \E l \in pdf.loads :
          /\ PdfRerender(IF l.cancelled
                         THEN [pdf EXCEPT !.loads = @ \ {l}]
                         ELSE [pdf EXCEPT !.loads = @ \ {l},
                                          !.error = "load", !.loading = FALSE])
          /\ lastEvent' = Event("loadSettled", l.cancelled)
    /\ UNCHANGED <<home, txt, call, ret>>

\* pdfDoc.getPage(page) resolves: the canvases are sized and the render task starts
GetPageResolve ==
    /\ \E r \in pdf.renders :
          /\ r.stage = "getPage"
          /\ PdfRerender(
                IF r.cancelled \/ pdf.error # None
                THEN [pdf EXCEPT !.renders = @ \ {r}]
                ELSE [pdf EXCEPT !.renders = (@ \ {r}) \cup {[r EXCEPT !.stage = "task"]},
                                 !.canvas = [doc |-> r.doc, page |-> r.page],
                                 !.overlay = BlankOverlay,
                                 !.renderTaskRef = [doc |-> r.doc, page |-> r.page]])
          /\ lastEvent' = Event("renderSettled", r.cancelled)
    /\ UNCHANGED <<home, txt, call, ret>>

\* pdfDoc.getPage(page) rejects
GetPageReject ==
    /\ \E r \in pdf.renders :
          /\ r.stage = "getPage"
          /\ PdfRerender(
                IF r.cancelled
                THEN [pdf EXCEPT !.renders = @ \ {r}]
                ELSE [pdf EXCEPT !.renders = @ \ {r},
                                 !.error = "render", !.loading = FALSE])
          /\ lastEvent' = Event("renderSettled", r.cancelled)
    /\ UNCHANGED <<home, txt, call, ret>>

\* task.promise resolves: the page is on the canvas
RenderTaskResolve ==
    /\ \E r \in pdf.renders :
          /\ r.stage = "task"
          /\ LET v == [pdf EXCEPT !.renders = @ \ {r},
                                  !.renderTaskRef = NoTask]
             IN  PdfRerender(IF r.cancelled THEN v
                             ELSE [v EXCEPT !.renderedDimensions = FreshDims(pdf),
                                            !.loading = FALSE])
          /\ lastEvent' = Event("renderSettled", r.cancelled)
    /\ UNCHANGED <<home, txt, call, ret>>

\* task.promise rejects: a task cancelled by cancel() ("rejected") or a failed one
RenderTaskReject ==
    /\ \E r \in pdf.renders :
          /\ r.stage \in {"task", "rejected"}
          /\ PdfRerender(
                IF r.cancelled \/ r.stage = "rejected"
                THEN [pdf EXCEPT !.renders = @ \ {r}]
                ELSE [pdf EXCEPT !.renders = @ \ {r},
                                 !.error = "render", !.loading = FALSE])
          /\ lastEvent' = Event("renderSettled", r.cancelled)
    /\ UNCHANGED <<home, txt, call, ret>>

\* the debounced ResizeObserver callback: setContainerWidth(w)
Resize ==
    /\ pdf.mounted
    /\ LET d == PdfDeps(pdf, ActiveSource, currentPage, activeCitation, activeRef)
       IN  pdf' = PdfSettle(PdfCommit(pdf, d, [d EXCEPT !.resized = TRUE]), activeRef)
    /\ lastEvent' = Event("resize", FALSE)
    /\ UNCHANGED <<home, txt, call, ret>>

\* the dwell timer fires (its 15 s outlast any fade loop started before it was set)
FadeTimerFire ==
    /\ pdf.fadeTimer.ref # 0
    /\ pdf.fadeLoop.ref = 0
    /\ pdf' = IF pdf.error # None \/ pdf.fadeTimer.dims = NullDims
              THEN [pdf EXCEPT !.fadeTimer = NoTimer]
              ELSE [pdf EXCEPT !.fadeTimer = NoTimer,
                               !.fadeLoop = [ref |-> pdf.fadeTimer.ref,
                                             cit |-> pdf.fadeTimer.cit,
                                             opacity |-> OpacityFull]]
    /\ lastEvent' = Event("fadeTimer", FALSE)
    /\ UNCHANGED <<home, txt, call, ret>>

\* one animation frame of fade()
FadeFrame ==
    /\ pdf.fadeLoop.ref # 0
    /\ LET o == pdf.fadeLoop.opacity - 1
       IN  pdf' = IF o <= 0
                  THEN [pdf EXCEPT !.overlay = BlankOverlay, !.fadeLoop = NoLoop]
                  ELSE [pdf EXCEPT !.overlay = [cit |-> pdf.fadeLoop.cit,
                                                opacity |-> o],
                                   !.fadeLoop.opacity = o]
    /\ lastEvent' = Event("fadeFrame", pdf.fadeLoop.ref # activeRef)
    /\ UNCHANGED <<home, txt, call, ret>>

-----------------------------------------------------------------------------
(* TextViewer: promise continuations, timer and animation-frame callbacks  *)

CurrentFile == ActiveSource.file
CurrentType == ActiveSource.type

\* fetch(file) resolves with r.ok: setContent(text); setLoading(false)
FetchResolve ==
    /\ \E f \in txt.fetches :
          /\ txt' = TxtDom([txt EXCEPT !.fetches = @ \ {f},
                                       !.content = FileText(f),
                                       !.loading = FALSE], CurrentType)
          /\ lastEvent' = Event("fetchSettled", f # CurrentFile)
    /\ UNCHANGED <<home, pdf, call, ret>>

\* fetch(file) rejects or !r.ok: setError(String(err)); setLoading(false)
FetchReject ==
    /\ \E f \in txt.fetches :
          /\ txt' = TxtDom([txt EXCEPT !.fetches = @ \ {f},
                                       !.error = "fetch",
                                       !.loading = FALSE], CurrentType)
          /\ lastEvent' = Event("fetchSettled", f # CurrentFile)
    /\ UNCHANGED <<home, pdf, call, ret>>

\* the animation-frame callback of a table citation marks rows or cells
TableFrame ==
    /\ txt.raf # NoCitation
    /\ LET tables == IF TxtView(txt, CurrentType) = "md"
                     THEN MdTables(txt.content) ELSE <<>>
       IN  txt' = [txt EXCEPT !.raf = NoCitation,
                              !.hl = @ \cup TableTargets(txt.raf, tables)]
    /\ lastEvent' = Event("tableFrame", FALSE)
    /\ UNCHANGED <<home, pdf, call, ret>>

\* the dwell timer of the TextViewer fires (an animation frame comes first)
TextTimerFire ==
    /\ txt.fadeTimerRef # NoTextTimer
    /\ txt.raf = NoCitation
    /\ txt' = IF txt.fadeTimerRef = "setFading"
              THEN [txt EXCEPT !.fadeTimerRef = NoTextTimer, !.fading = TRUE]
              ELSE [txt EXCEPT !.fadeTimerRef = NoTextTimer,
                               !.fadingEls = @ \cup txt.hl]
    /\ lastEvent' = Event("textTimer", FALSE)
    /\ UNCHANGED <<home, pdf, call, ret>>

-----------------------------------------------------------------------------

\* the actions of the PdfViewer's pending callbacks
PdfAsync ==
    \/ PdfLoadResolve
    \/ PdfLoadReject
    \/ GetPageResolve
    \/ GetPageReject
    \/ RenderTaskResolve
    \/ RenderTaskReject
    \/ Resize
    \/ FadeTimerFire
    \/ FadeFrame

\* the actions of the TextViewer's pending callbacks
TxtAsync ==
    \/ FetchResolve
    \/ FetchReject
    \/ TableFrame
    \/ TextTimerFire

Next ==
    \/ DataLoaded(Payload)
    \/ SourceTabClick
    \/ BadgeClick
    \/ PrevClick
    \/ NextClick
    \/ PdfAsync
    \/ TxtAsync

Spec == Init /\ [][Next]_vars

\* the application on the payload whose source C is cited beyond its last page
NextBeyond ==
    \/ DataLoaded(PayloadBeyond)
    \/ SourceTabClick
    \/ BadgeClick
    \/ PrevClick
    \/ NextClick
    \/ PdfAsync

SpecBeyond == Init /\ [][NextBeyond]_vars

\* the application on the payload of the markdown source with two tables, for
\* as long as no dwell timer fires (the fade is followed in Spec)
NextTables ==
    \/ DataLoaded(PayloadTables)
    \/ SourceTabClick
    \/ BadgeClick
    \/ FetchResolve
    \/ FetchReject
    \/ TableFrame

SpecTables == Init /\ [][NextTables]_vars

\* the application on the payload whose fields cite sources it does not have
NextStray ==
    \/ DataLoaded(PayloadStray)
    \/ SourceTabClick
    \/ BadgeClick
    \/ PdfAsync

SpecStray == Init /\ [][NextStray]_vars

-----------------------------------------------------------------------------
(* lib/types.ts: citation records and their comparison                     *)
(* A JavaScript object is a record; a key whose value is undefined is a    *)
(* key the record does not have (reading either yields undefined).         *)

\* largest page number, coordinate and offset of the citations compared
MaxVal == 2

Has(r, f) == f \in DOMAIN r

\* r.f of a number-valued key (Undef when undefined)
Num(r, f) == IF Has(r, f) THEN r[f] ELSE Undef

\* r.f of a string-valued key
Str(r, f) == IF Has(r, f) THEN r[f] ELSE "undefined"

\* r.snippet (a text is a sequence of characters)
Snippet(r) == IF Has(r, "snippet") THEN r.snippet ELSE <<"undefined">>

\* citationMatches as it would be if the text-like kinds (text, md) were
\* compared by source and snippet whatever their tags
citationMatchesBySnippet(c, active) ==
    IF c.type = "pdf" \/ active.type = "pdf" THEN "false"
    ELSE IF Str(c, "sourceId") = Str(active, "sourceId")
            /\ Snippet(c) = Snippet(active)
         THEN "true" ELSE "false"

\* citationMatches as it would be if the pdf branch compared the whole bbox
citationMatchesWholeBox(c, active) ==
    IF c.type = "pdf" /\ active.type = "pdf" /\ Has(c, "bbox") /\ Has(active, "bbox")
    THEN IF /\ Str(c, "sourceId") = Str(active, "sourceId")
            /\ Num(c, "page") = Num(active, "page")
            /\ c.bbox = active.bbox
         THEN "true" ELSE "false"
    ELSE "false"

\* citationMatches as it would be if the text branch compared the start only
citationMatchesStartOnly(c, active) ==
    IF c.type = "text" /\ active.type = "text"
    THEN IF /\ Str(c, "sourceId") = Str(active, "sourceId")
            /\ Num(c, "startOffset") = Num(active, "startOffset")
         THEN "true" ELSE "false"
    ELSE "false"

\* citationMatches(c, active): "true", "false", or "TypeError" when the
\* evaluation reads a property of undefined
citationMatches(c, active) ==
    IF c.type # active.type THEN "false"
    ELSE IF c.type = "pdf"
    THEN IF \/ Str(c, "sourceId") # Str(active, "sourceId")
            \/ Num(c, "page") # Num(active, "page")
         THEN "false"
         ELSE IF ~Has(c, "bbox") \/ ~Has(active, "bbox") THEN "TypeError"
         ELSE IF c.bbox.left = active.bbox.left /\ c.bbox.top = active.bbox.top
              THEN "true" ELSE "false"
    ELSE IF c.type = "text"
    THEN IF /\ Str(c, "sourceId") = Str(active, "sourceId")
            /\ Num(c, "startOffset") = Num(active, "startOffset")
            /\ Num(c, "endOffset") = Num(active, "endOffset")
         THEN "true" ELSE "false"
    ELSE IF c.type = "md"
    THEN IF Num(c, "tableIndex") # Undef /\ Num(active, "tableIndex") # Undef
         THEN IF /\ Str(c, "sourceId") = Str(active, "sourceId")
                 /\ Num(c, "tableIndex") = Num(active, "tableIndex")
                 /\ Num(c, "startRow") = Num(active, "startRow")
                 /\ Num(c, "endRow") = Num(active, "endRow")
                 /\ Num(c, "startCol") = Num(active, "startCol")
                 /\ Num(c, "endCol") = Num(active, "endCol")
              THEN "true" ELSE "false"
         ELSE IF /\ Str(c, "sourceId") = Str(active, "sourceId")
                 /\ Snippet(c) = Snippet(active)
              THEN "true" ELSE "false"
    ELSE "false"

\* JSON null
Null == "null"

\* normalizeCitation as it would be if it also converted a 0-based legacy page
normalizeCitationRebased(raw) ==
    IF Str(raw, "type") \in {"text", "md"} THEN raw
    ELSE [f \in {"type"} \cup ({"sourceId", "page", "bbox"} \cap DOMAIN raw) |->
             IF f = "type" THEN "pdf"
             ELSE IF f = "page" THEN raw[f] + 1 ELSE raw[f]]

\* normalizeCitation as it would be if a record tagged "pdf" were passed through
\* like the other tagged records
normalizeCitationTaggedThrough(raw) ==
    IF Str(raw, "type") \in {"text", "md", "pdf"} THEN raw
    ELSE [f \in {"type"} \cup ({"sourceId", "page", "bbox"} \cap DOMAIN raw) |->
             IF f = "type" THEN "pdf" ELSE raw[f]]

normalizeCitation(raw) ==
    IF Str(raw, "type") = "text" THEN raw
    ELSE IF Str(raw, "type") = "md" THEN raw
    ELSE [f \in {"type"} \cup ({"sourceId", "page", "bbox"} \cap DOMAIN raw) |->
             IF f = "type" THEN "pdf" ELSE raw[f]]

\* normalizeSource as it would be with || "pdf" written as an overwrite
normalizeSourceAlwaysPdf(raw) ==
    [f \in DOMAIN raw \cup {"type"} |-> IF f = "type" THEN "pdf" ELSE raw[f]]

\* { ...raw, type: raw.type ?? "pdf" }
normalizeSource(raw) ==
    [f \in DOMAIN raw \cup {"type"} |->
        IF f = "type"
        THEN IF Has(raw, "type") /\ raw.type # Null THEN raw.type ELSE "pdf"
        ELSE raw[f]]

\* cs without the entries that repeat an earlier one
RECURSIVE DropRepeats(_)
DropRepeats(cs) ==
    IF Len(cs) <= 1 THEN cs
    ELSE LET front == DropRepeats(SubSeq(cs, 1, Len(cs) - 1))
         IN  IF \E j \in 1..(Len(cs) - 1) : cs[j] = cs[Len(cs)]
             THEN front ELSE Append(front, cs[Len(cs)])

\* the load effect as it would be if it kept one entry of each citation
LoadFieldDeduplicating(f) ==
    [k \in DOMAIN f \cup {"citations"} |->
        IF k = "citations"
        THEN IF Has(f, "citations")
             THEN DropRepeats([j \in DOMAIN f.citations |->
                                  normalizeCitation(f.citations[j])])
             ELSE <<>>
        ELSE f[k]]

\* { ...f, citations: (f.citations || []).map((c) => normalizeCitation(c)) }
LoadField(f) ==
    [k \in DOMAIN f \cup {"citations"} |->
        IF k = "citations"
        THEN IF Has(f, "citations")
             THEN [j \in DOMAIN f.citations |-> normalizeCitation(f.citations[j])]
             ELSE <<>>
        ELSE f[k]]

\* the ExtractionData the load effect passes to setData for the raw payload
LoadPayload(raw) ==
    [sources |-> [i \in DOMAIN raw.sources |-> normalizeSource(raw.sources[i])],
     fields  |-> [i \in DOMAIN raw.fields |-> LoadField(raw.fields[i])]]

-----------------------------------------------------------------------------
(* DataPanel: which badges and field rows are marked active                *)

\* isActive of a citation badge: "true", "false" or "TypeError"
BadgeIsActive(citation, active) ==
    IF active = NoCitation THEN "false"
    ELSE IF Str(active, "sourceId") # Str(citation, "sourceId") THEN "false"
    ELSE IF Num(active, "page") # Num(citation, "page") THEN "false"
    ELSE IF ~Has(active, "bbox") \/ ~Has(citation, "bbox") THEN "TypeError"
    ELSE IF /\ active.bbox.left = citation.bbox.left
            /\ active.bbox.top = citation.bbox.top
         THEN "true" ELSE "false"

\* isFieldActive: field.citations.some(...), evaluated from the first citation
RECURSIVE IsFieldActive(_, _)
IsFieldActive(citations, active) ==
    IF active = NoCitation \/ citations = <<>> THEN "false"
    ELSE LET r == BadgeIsActive(Head(citations), active)
         IN  IF r = "false" THEN IsFieldActive(Tail(citations), active) ELSE r

-----------------------------------------------------------------------------
(* TextViewer: what one render shows for a content and an active citation  *)

\* content.slice(a, b) for 0 <= a <= b <= content.length
Slice(content, a, b) == SubSeq(content, a + 1, b)

\* the text / csv render as it would be if a citation that ends beyond the
\* document were given no highlight
TextSlicesNoneBeyond(content, ac) ==
    IF ac.type = "text" /\ ac.endOffset <= Len(content)
    THEN LET start == Max(0, Min(ac.startOffset, Len(content)))
             end   == Max(start, ac.endOffset)
         IN  [before |-> Slice(content, 0, start),
              highlighted |-> Slice(content, start, end),
              after |-> Slice(content, end, Len(content))]
    ELSE [before |-> content, highlighted |-> <<>>, after |-> <<>>]

\* the text / csv render as it would be if the end were clamped into the
\* document but not raised to the start
TextSlicesEndUnordered(content, ac) ==
    IF ac.type = "text"
    THEN LET start == Max(0, Min(ac.startOffset, Len(content)))
             end   == Max(0, Min(ac.endOffset, Len(content)))
         IN  [before |-> Slice(content, 0, start),
              highlighted |-> Slice(content, start, end),
              after |-> Slice(content, end, Len(content))]
    ELSE [before |-> content, highlighted |-> <<>>, after |-> <<>>]

\* before / highlighted / after of the text and csv render
TextSlices(content, ac) ==
    IF ac.type = "text"
    THEN LET start == Max(0, Min(ac.startOffset, Len(content)))
             end   == Max(start, Min(ac.endOffset, Len(content)))
         IN  [before |-> Slice(content, 0, start),
              highlighted |-> Slice(content, start, end),
              after |-> Slice(content, end, Len(content))]
    ELSE [before |-> content, highlighted |-> <<>>, after |-> <<>>]

\* the positions (from 0) at which snippet occurs in content
Occurrences(content, snippet) ==
    {i \in 0..(Len(content) - Len(snippet)) :
        SubSeq(content, i + 1, i + Len(snippet)) = snippet}

\* content.indexOf(snippet)
IndexOf(content, snippet) ==
    IF Occurrences(content, snippet) = {} THEN -1
    ELSE CHOOSE i \in Occurrences(content, snippet) :
             \A j \in Occurrences(content, snippet) : i <= j

\* the opening and closing tags of the injected highlight, one token each
MarkOpen == "<mark class=\"text-highlight\" id=\"md-text-cite\">"
MarkClose == "</mark>"

\* processedContent as it would be if it wrapped the last occurrence
processedContentLast(content, ac) ==
    IF ac.type # "md" \/ ac.tableIndex # Undef THEN content
    ELSE IF Occurrences(content, ac.snippet) = {} THEN content
    ELSE LET idx == CHOOSE i \in Occurrences(content, ac.snippet) :
                        \A j \in Occurrences(content, ac.snippet) : i >= j
         IN  Slice(content, 0, idx) \o <<MarkOpen>> \o ac.snippet \o <<MarkClose>>
                 \o Slice(content, idx + Len(ac.snippet), Len(content))

\* processedContent: the markdown source handed to ReactMarkdown
processedContent(content, ac) ==
    IF ac.type # "md" \/ ac.tableIndex # Undef THEN content
    ELSE LET idx == IndexOf(content, ac.snippet)
         IN  IF idx = -1 THEN content
             ELSE Slice(content, 0, idx) \o <<MarkOpen>> \o ac.snippet \o <<MarkClose>>
                      \o Slice(content, idx + Len(ac.snippet), Len(content))

-----------------------------------------------------------------------------
(* The dwell: the delay each renderer passes to setTimeout when a citation  *)
(* is activated, in milliseconds                                           *)

\* PdfViewer fade effect, in the two revisions of the component
PdfDwell == 2500
PdfDwellCancelling == 15000

\* TextViewer: text / csv mode, md table citation, md snippet citation
TextDwell == 15000
TableDwell == 15000
SnippetDwell == 15000

Renderers == {"PdfViewer", "PdfViewer (cancelling revision)", "text", "md table",
              "md snippet"}

\* the delay of the fade timer the renderer schedules for an activation
FadeDelay(renderer) ==
    CASE renderer = "PdfViewer" -> PdfDwell
      [] renderer = "PdfViewer (cancelling revision)" -> PdfDwellCancelling
      [] renderer = "text" -> TextDwell
      [] renderer = "md table" -> TableDwell
      [] renderer = "md snippet" -> SnippetDwell

-----------------------------------------------------------------------------
(* Citation resolution (find_citation): snippet -> best-matching block.    *)
(* A text is a sequence of tokens: characters and HTML tags.  Scores are   *)
(* in thousandths, rounded down.                                           *)

\* longest snippet and longest block content, in tokens
MaxSnippet == 2
MaxBlock == 2

Tags == {"<td>"}
Chars == {"a", "b"}

\* strip HTML from a block content or a snippet
RECURSIVE StripHtml(_)
StripHtml(text) ==
    IF text = <<>> THEN <<>>
    ELSE IF Head(text) \in Tags THEN StripHtml(Tail(text))
    ELSE <<Head(text)>> \o StripHtml(Tail(text))

\* length of the longest common subsequence of two texts
RECURSIVE Lcs(_, _)
Lcs(x, y) ==
    IF x = <<>> \/ y = <<>> THEN 0
    ELSE IF Head(x) = Head(y) THEN 1 + Lcs(Tail(x), Tail(y))
    ELSE Max(Lcs(Tail(x), y), Lcs(x, Tail(y)))

\* the similarity ratio of the fuzzy tier: 2 * matches / total length
FuzzyScore(snippet, block) ==
    (2000 * Lcs(snippet, block)) \div (Len(snippet) + Len(block))

\* the score as it was before the two tiers: the fuzzy ratio is not capped
ScoreUncapped(snippet, block) ==
    IF Occurs(snippet, block)
    THEN 500 + (500 * Len(snippet)) \div Len(block)
    ELSE IF Occurs(block, snippet)
    THEN 500 + (400 * Len(block)) \div Len(snippet)
    ELSE FuzzyScore(snippet, block)

\* score of a block text against a snippet, both stripped and not empty
Score(snippet, block) ==
    IF Occurs(snippet, block)
    THEN 500 + (500 * Len(snippet)) \div Len(block)
    ELSE IF Occurs(block, snippet)
    THEN 500 + (400 * Len(block)) \div Len(snippet)
    ELSE Min(FuzzyScore(snippet, block), 490)

\* the scores of the blocks of a source against the snippet
Scores(snippet, blocks) ==
    [i \in DOMAIN blocks |-> Score(StripHtml(snippet), StripHtml(blocks[i]))]

\* the resolver taking the first block of the maximum score
FindCitationFirst(snippet, blocks) ==
    LET sc   == Scores(snippet, blocks)
        top  == {i \in DOMAIN blocks : \A j \in DOMAIN blocks : sc[j] <= sc[i]}
    IN  IF \E i \in top : sc[i] < 100 THEN {}
        ELSE {i \in top : \A j \in top : i <= j}

\* the resolver skipping a citation only when no block shares a character
FindCitationAnyScore(snippet, blocks) ==
    LET sc   == Scores(snippet, blocks)
        top  == {i \in DOMAIN blocks : \A j \in DOMAIN blocks : sc[j] <= sc[i]}
        best == {i \in top : \A j \in top :
                    Len(StripHtml(blocks[i])) <= Len(StripHtml(blocks[j]))}
    IN  IF \E i \in top : sc[i] < 1 THEN {} ELSE best

\* the blocks the resolver may return: those of the maximum score, among them
\* those of the shortest text; none when the maximum is below 0.1
FindCitation(snippet, blocks) ==
    LET sc   == Scores(snippet, blocks)
        top  == {i \in DOMAIN blocks : \A j \in DOMAIN blocks : sc[j] <= sc[i]}
        best == {i \in top : \A j \in top :
                    Len(StripHtml(blocks[i])) <= Len(StripHtml(blocks[j]))}
    IN  IF \E i \in top : sc[i] < 100 THEN {} ELSE best

\* the citations of one field, each resolved on its own against the blocks
ResolveCitations(snippets, blocks) ==
    [i \in DOMAIN snippets |-> FindCitation(snippets[i], blocks)]

-----------------------------------------------------------------------------
(* The pure functions of lib/types.ts, the load mapping and the DataPanel  *)
(* decisions, each called once on an input drawn from a bounded set        *)

\* citations of one field, fields of one payload
MaxCits == 2
MaxFields == 1

Restrict(r, D) == [f \in D \cap DOMAIN r |-> r[f]]

Vals == 1..MaxVal
BoxSizes == {<<2, 1>>, <<3, 2>>}
Snippets == {<<"b", "c">>, <<"x", "y">>}

PdfInputs ==
    {[type |-> "pdf", sourceId |-> sid, page |-> p,
      bbox |-> [left |-> l, top |-> t, width |-> wh[1], height |-> wh[2]]] :
        sid \in {"A", "B"}, p \in Vals, l \in Vals, t \in Vals, wh \in BoxSizes}

TextInputs ==
    {[type |-> "text", sourceId |-> sid, startOffset |-> a, endOffset |-> b,
      snippet |-> sn] :
        sid \in {"T", "M"}, a \in Vals, b \in Vals, sn \in Snippets}

MdTableInputs ==
    {[type |-> "md", sourceId |-> sid, snippet |-> <<"x", "y">>, tableIndex |-> ti,
      startRow |-> sr, endRow |-> er, startCol |-> sc, endCol |-> ec] :
        sid \in {"T", "M"}, ti \in {0, 1}, sr \in {0, 1}, er \in {Undef, 1},
        sc \in {Undef, 0}, ec \in {Undef, 1}}

MdSnippetInputs ==
    {[type |-> "md", sourceId |-> sid, snippet |-> sn, tableIndex |-> Undef,
      startRow |-> Undef, endRow |-> Undef, startCol |-> Undef, endCol |-> Undef] :
        sid \in {"T", "M"}, sn \in Snippets}

\* raw citation records of a persisted payload: legacy flat records (untagged,
\* tagged "pdf" or with an unknown tag) with any of their keys missing, and
\* tagged text / md records
RawCitations ==
    {Restrict([type |-> t, sourceId |-> "A", page |-> 1, bbox |-> BBox(1, 1),
               extra |-> "x"], D) :
        t \in {"pdf", "csv"},
        D \in SUBSET {"type", "sourceId", "page", "bbox", "extra"}}
    \cup {Restrict([type |-> "text", sourceId |-> "T", startOffset |-> 1,
                    endOffset |-> 2, snippet |-> <<"b", "c">>, extra |-> "x"], D) :
             D \in {{"type", "sourceId", "startOffset", "endOffset", "snippet"},
                    {"type", "sourceId", "startOffset", "endOffset", "snippet", "extra"},
                    {"type", "sourceId"}}}
    \cup {Restrict([type |-> "md", sourceId |-> "M", snippet |-> <<"x", "y">>,
                    tableIndex |-> 0, startRow |-> 1, page |-> 1], D) :
             D \in {{"type", "sourceId", "snippet"},
                    {"type", "sourceId", "snippet", "tableIndex", "startRow"},
                    {"type", "sourceId", "snippet", "page"}}}

\* raw source records
RawSources ==
    {Restrict([id |-> "A", name |-> "a", file |-> "a.pdf", type |-> t,
               pageCount |-> 2, mdFile |-> "a.md"], D) :
        t \in {"pdf", "text", "csv", "md", Null},
        D \in {{"id", "name", "file", "pageCount"},
               {"id", "name", "file", "pageCount", "type"},
               {"id", "name", "file", "pageCount", "type", "mdFile"},
               {"id", "type"}}}

\* the citations citationMatches is called with: well-formed ones of each kind
\* and whatever normalizeCitation returns for a raw record
CitInputs ==
    PdfInputs \cup TextInputs \cup MdTableInputs \cup MdSnippetInputs
    \cup {normalizeCitation(r) : r \in RawCitations}

\* the active citations: what handleCitationClick builds from a citation
ActiveInputs ==
    {ToActive(c) : c \in PdfInputs \cup TextInputs \cup MdTableInputs \cup MdSnippetInputs}
    \cup {[type |-> "pdf", sourceId |-> "A", page |-> 1],
          [type |-> "pdf", sourceId |-> "A"]}

\* sequences over S of length lo..hi
SeqsOf(S, lo, hi) == UNION {[1..n -> S] : n \in lo..hi}

\* the citations of the field rows rendered
PanelCits ==
    {c \in PdfInputs : c.sourceId = "A" /\ c.page = 1 /\ c.bbox.top = 1 /\ c.bbox.width = 2}
    \cup {c \in TextInputs : c.sourceId = "T" /\ c.endOffset = 2 /\ c.snippet = <<"b", "c">>}
    \cup {c \in MdSnippetInputs : c.sourceId = "M"}

\* raw fields: with a citations list or without one
RawFields ==
    {[id |-> "f", value |-> "v", citations |-> cs] :
        cs \in SeqsOf({[sourceId |-> "A", page |-> 1, bbox |-> BBox(1, 1)],
                       [type |-> "pdf", sourceId |-> "A", page |-> 1, bbox |-> BBox(1, 1),
                        extra |-> "x"],
                       [type |-> "text", sourceId |-> "T", startOffset |-> 1,
                        endOffset |-> 2, snippet |-> <<"b", "c">>]}, 0, MaxCits)}
    \cup {[id |-> "f", value |-> "v"]}

RawPayloads ==
    {[sources |-> <<[id |-> "A", file |-> "a.pdf", pageCount |-> 2],
                    [id |-> "T", file |-> "t.txt", pageCount |-> 1, type |-> "text"]>>,
      fields |-> fs] : fs \in SeqsOf(RawFields, 0, MaxFields)}

\* plain-text documents of 12, 4 and 0 characters
TextDocs ==
    {<<"a", "b", "c", "d", "e", "f", "g", "h", "i", "j", "k", "l">>,
     FileText("t.txt"), <<>>}

\* offsets of the text citations shown: inside, at the end of and beyond the
\* documents
Offsets == {-2, 0, 3, 10, 12, 25}

\* what the TextViewer receives in text / csv mode
TextViewerCitations ==
    {[type |-> "text", sourceId |-> "T", startOffset |-> a, endOffset |-> b] :
        a \in Offsets, b \in Offsets}
    \cup {NoCitation}

\* markdown documents: snippets occur twice, once or never in them
MdDocs == {FileText("n.md"), FileText("m.md"), <<"x", "x", "y">>, <<>>}

\* what the TextViewer receives in md mode
MdViewerCitations ==
    {[type |-> "md", sourceId |-> "N", snippet |-> sn, tableIndex |-> ti,
      startRow |-> Undef, endRow |-> Undef, startCol |-> Undef, endCol |-> Undef] :
        sn \in {<<"x", "y">>, <<"|">>, <<"r", "1", "|">>, <<"y", "x">>, <<"q">>},
        ti \in {Undef, 0}}
    \cup {NoCitation, [type |-> "text", sourceId |-> "N", startOffset |-> 0,
                       endOffset |-> 2]}

\* texts of 1..n tokens whose stripped form is not empty
TextsUpTo(n) == {t \in SeqsOf(Chars \cup Tags, 1, n) : StripHtml(t) # <<>>}

\* the second block of a resolved source: shorter than, a reordering of, tagged
\* like and equal to what the first block can be
RivalBlocks == {<<"a">>, <<"b", "a">>, <<"<td>", "b">>, <<"a", "b">>}

\* blocks of one "a" followed by "b"s: against the snippet "aa" the ratio is
\* 2/20 = 0.1 for the block of 18 characters and 2/21 < 0.1 for the one of 19
LongBlocks == {<<"a">> \o [i \in 1..17 |-> "b"], <<"a">> \o [i \in 1..18 |-> "b"]}

\* the block lists of a resolved source: two short blocks, no block, long
\* blocks, and blocks of two and three characters in both orders
BlockLists ==
    {<<b1, b2>> : b1 \in TextsUpTo(MaxBlock), b2 \in RivalBlocks}
    \cup {<<>>, << <<"b", "a">>, <<"a", "b", "a">> >>,
          << <<"a", "b", "a">>, <<"b", "a">> >>}
    \cup {<<b>> : b \in LongBlocks}
    \cup {<<b1, b2>> : b1 \in LongBlocks, b2 \in LongBlocks}

\* the snippets of the citations of one field
FieldSnippets == SeqsOf({<<"a", "a">>, <<"a">>, <<"<td>", "b">>}, 1, 2)

Calls ==
    {[fn |-> "citationMatches", c |-> c, active |-> a] :
        c \in CitInputs, a \in ActiveInputs}
    \cup {[fn |-> "FieldRow", citations |-> cs, active |-> a] :
        cs \in SeqsOf(PanelCits, 1, MaxCits),
        a \in {ToActive(c) : c \in PanelCits} \cup {NoCitation}}
    \cup {[fn |-> "normalizeCitation", raw |-> r] : r \in RawCitations}
    \cup {[fn |-> "normalizeSource", raw |-> r] : r \in RawSources}
    \cup {[fn |-> "load", raw |-> p] : p \in RawPayloads}
    \cup {[fn |-> "TextViewer", content |-> d, active |-> a] :
        d \in TextDocs, a \in TextViewerCitations}
    \cup {[fn |-> "processedContent", content |-> d, active |-> a] :
        d \in MdDocs, a \in MdViewerCitations}
    \cup {[fn |-> "setTimeout", renderer |-> r] : r \in Renderers}
    \cup {[fn |-> "find_citation", snippet |-> sn, blocks |-> bs] :
        sn \in TextsUpTo(MaxSnippet), bs \in BlockLists}
    \cup {[fn |-> "resolveCitations", snippets |-> sns, blocks |-> bs] :
        sns \in FieldSnippets,
        bs \in {<<>>} \cup {<<b1, b2>> : b1 \in LongBlocks, b2 \in LongBlocks}}

InitPure ==
    /\ call \in Calls
    /\ ret = NoRet
    /\ HomeInit

\* a DataPanel badge or field row evaluates citationMatches(c, active)
CallCitationMatches ==
    /\ call.fn = "citationMatches"
    /\ ret = NoRet
    /\ ret' = [fn |-> call.fn, value |-> citationMatches(call.c, call.active)]
    /\ UNCHANGED <<home, pdf, txt, lastEvent, call>>

\* the DataPanel renders one field row with its badges
RenderFieldRow ==
    /\ call.fn = "FieldRow"
    /\ ret = NoRet
    /\ ret' = [fn |-> call.fn,
               row |-> IsFieldActive(call.citations, call.active),
               badges |-> [i \in DOMAIN call.citations |->
                              BadgeIsActive(call.citations[i], call.active)]]
    /\ UNCHANGED <<home, pdf, txt, lastEvent, call>>

\* normalizeCitation(raw), and normalizeCitation of its result
CallNormalizeCitation ==
    /\ call.fn = "normalizeCitation"
    /\ ret = NoRet
    /\ ret' = [fn |-> call.fn, value |-> normalizeCitation(call.raw),
               again |-> normalizeCitation(normalizeCitation(call.raw))]
    /\ UNCHANGED <<home, pdf, txt, lastEvent, call>>

\* normalizeSource(raw), and normalizeSource of its result
CallNormalizeSource ==
    /\ call.fn = "normalizeSource"
    /\ ret = NoRet
    /\ ret' = [fn |-> call.fn, value |-> normalizeSource(call.raw),
               again |-> normalizeSource(normalizeSource(call.raw))]
    /\ UNCHANGED <<home, pdf, txt, lastEvent, call>>

\* the load effect maps the raw payload
CallLoad ==
    /\ call.fn = "load"
    /\ ret = NoRet
    /\ ret' = [fn |-> call.fn, value |-> LoadPayload(call.raw)]
    /\ UNCHANGED <<home, pdf, txt, lastEvent, call>>

\* the TextViewer renders a loaded plain text with its active citation
RenderText ==
    /\ call.fn = "TextViewer"
    /\ ret = NoRet
    /\ ret' = [fn |-> call.fn, value |-> TextSlices(call.content, call.active)]
    /\ UNCHANGED <<home, pdf, txt, lastEvent, call>>

\* the TextViewer in md mode computes the source it hands to ReactMarkdown
RenderMarkdown ==
    /\ call.fn = "processedContent"
    /\ ret = NoRet
    /\ ret' = [fn |-> call.fn, value |-> processedContent(call.content, call.active)]
    /\ UNCHANGED <<home, pdf, txt, lastEvent, call>>

\* the fade effect of a renderer runs for an activated citation
ScheduleFade ==
    /\ call.fn = "setTimeout"
    /\ ret = NoRet
    /\ ret' = [fn |-> call.fn, delay |-> FadeDelay(call.renderer)]
    /\ UNCHANGED <<home, pdf, txt, lastEvent, call>>

\* the resolver scores the blocks of the source and selects
CallFindCitation ==
    /\ call.fn = "find_citation"
    /\ ret = NoRet
    /\ ret' = [fn |-> call.fn,
               scores |-> Scores(call.snippet, call.blocks),
               selected |-> FindCitation(call.snippet, call.blocks)]
    /\ UNCHANGED <<home, pdf, txt, lastEvent, call>>

\* every citation of a field is resolved against the blocks of its source
CallResolveCitations ==
    /\ call.fn = "resolveCitations"
    /\ ret = NoRet
    /\ ret' = [fn |-> call.fn,
               resolved |-> ResolveCitations(call.snippets, call.blocks)]
    /\ UNCHANGED <<home, pdf, txt, lastEvent, call>>

NextPure ==
    \/ CallFindCitation
    \/ CallResolveCitations
    \/ ScheduleFade
    \/ RenderText
    \/ RenderMarkdown
    \/ CallCitationMatches
    \/ RenderFieldRow
    \/ CallNormalizeCitation
    \/ CallNormalizeSource
    \/ CallLoad

SpecPure == InitPure /\ [][NextPure]_vars

-----------------------------------------------------------------------------
(* What is on screen                                                       *)

\* the file of the source a citation names
FileOf(sid) == FindSource(data, sid).file

\* the page renders whose pdf.js task draws on the canvas
InFlight == {r \in pdf.renders : r.stage = "task"}

\* the highlight of the TextViewer: "none", "full" or "fading"
\* (the <mark> of text / csv mode takes the class "fading" from the fading state,
\* the marked table elements take it from classList, the injected <mark> of md
\* mode has the fixed class "text-highlight")
TxtHighlight ==
    LET d == TxtDeps(ActiveSource, activeCitation, activeRef)
    IN  IF ~txt.mounted THEN "none"
        ELSE IF TextMarkShown(txt, d) THEN (IF txt.fading THEN "fading" ELSE "full")
        ELSE IF MdMarkShown(txt, d) THEN "full"
        ELSE IF txt.hl # {}
             THEN (IF txt.hl \subseteq txt.fadingEls THEN "fading" ELSE "full")
             ELSE "none"

\* no promise continuation and no animation frame is pending
Quiet ==
    /\ pdf.loads = {}
    /\ pdf.renders = {}
    /\ pdf.fadeLoop = NoLoop
    /\ txt.fetches = {}
    /\ txt.raf = NoCitation

\* the viewer of the displayed source has finished loading without an error
Loaded ==
    \/ pdf.mounted /\ ~pdf.loading /\ pdf.error = None
    \/ txt.mounted /\ ~txt.loading /\ txt.error = None

-----------------------------------------------------------------------------
(* Properties                                                              *)

\* C1: whenever a citation is active, the displayed source is the citation's
\* source and, for a pdf citation, the current page is the citation's page; the
\* three values change in one step, so no state in between exists.
C1_ActiveMatchesDisplay ==
    activeCitation # NoCitation =>
        /\ activeSourceId = activeCitation.sourceId
        /\ activeCitation.type = "pdf" => currentPage = activeCitation.page

\* a click on the citation of the last page of source A, made while another
\* source was displayed, has just been handled
C1_Witness ==
    /\ lastEvent = Event("citationClick", TRUE)
    /\ activeCitation.type = "pdf"
    /\ activeCitation.sourceId = "A"
    /\ activeCitation.page = PagesA

\* C2: after a manual page change (Prev / Next) and after a source-tab selection
\* no citation is active, whatever was active before; after a source-tab
\* selection the current page is 1.
C2_NavigationClears ==
    /\ lastEvent.kind \in {"pageChange", "sourceChange"} => activeCitation = NoCitation
    /\ lastEvent.kind = "sourceChange" => currentPage = 1

\* Next was clicked while a citation was active
C2_Witness ==
    /\ lastEvent = Event("pageChange", TRUE)
    /\ currentPage = 2

\* C3: when dwell and fade of the active citation have elapsed (the last
\* animation frame of its fade has just cleared the overlay, no user event in
\* between), the controller holds no active citation.
C3_IdleAfterFade ==
    (/\ lastEvent = Event("fadeFrame", FALSE)
     /\ pdf.fadeLoop = NoLoop) => activeCitation = NoCitation

\* C4: in every renderer a highlight shown at full strength has its fade ahead
\* of it: the dwell timer is pending or (PDF) the fade animation is running.
\* A full-strength highlight with neither is never going to fade.
C4_FullHighlightWillFade ==
    /\ TxtHighlight = "full" => txt.fadeTimerRef # NoTextTimer
    /\ (pdf.overlay.cit # NoCitation /\ pdf.overlay.opacity = OpacityFull) =>
           (pdf.fadeTimer.ref # 0 \/ pdf.fadeLoop.ref # 0)

\* C5: in the PDF renderer a new activation cancels the fade of the previous
\* one: while the dwell timer of the current activation is pending, no animation
\* frame of an earlier activation's fade touches the overlay.
C5_NewActivationCancelsFade ==
    ~(/\ lastEvent = Event("fadeFrame", TRUE)
      /\ activeRef # 0
      /\ pdf.fadeTimer.ref = activeRef)

\* C6: no ghost fade: no animation frame (and no timer callback) created for an
\* activation runs after that activation was cleared or superseded.
C6_NoGhostFade ==
    lastEvent.kind = "fadeFrame" => ~lastEvent.flag

\* C7: whenever the PDF overlay shows a highlight, the canvas beneath it shows
\* the page of the document the active citation belongs to.
C7_HighlightOverItsPage ==
    pdf.overlay.cit # NoCitation =>
        /\ activeCitation.type = "pdf"
        /\ pdf.canvas = [doc |-> FileOf(activeCitation.sourceId),
                         page |-> activeCitation.page]

\* C8: a citation clicked while another source was displayed ends highlighted:
\* once its document has loaded and nothing is pending any more, the renderer
\* shows the highlight (the PDF overlay until the dwell has elapsed, the text
\* and markdown highlights for good).
C8_SwitchingClickHighlights ==
    (switched /\ activeCitation # NoCitation /\ Loaded /\ Quiet) =>
        IF activeCitation.type = "pdf"
        THEN pdf.fadeTimer.ref # 0 => pdf.overlay.cit = activeCitation
        ELSE TxtHighlight # "none"

\* C9: stale load completions are discarded: when no load is pending, the text
\* shown is that of the selected file, and the PDF document held is never that
\* of another file than the selected one.
C9_LoadedIsSelected ==
    /\ (txt.mounted /\ txt.fetches = {} /\ ~txt.loading /\ txt.error = None) =>
           txt.content = FileText(CurrentFile)
    /\ (pdf.mounted /\ pdf.pdfDoc # None) => pdf.pdfDoc = CurrentFile

Matched == ret.fn = "citationMatches"

\* both arguments of the call carry tag t
BothTagged(t) == Matched /\ call.c.type = t /\ call.active.type = t

\* C11: citationMatches(c, active) is false whenever the tag of c differs from
\* the tag of active, whatever the two tags are (the result is computed from
\* the two arguments alone: citationMatches reads no state).
C11_FalseAcrossTags ==
    (Matched /\ call.c.type # call.active.type) => ret.value = "false"

\* a text citation was compared with an active md citation of the same source
\* and the same snippet
C11_Witness ==
    /\ Matched
    /\ call.c.type = "text" /\ call.active.type = "md"
    /\ call.c.sourceId = call.active.sourceId
    /\ Snippet(call.c) = Snippet(call.active)
    /\ ret.value = "false"

\* C12: for two pdf citations, citationMatches is true exactly when sourceId,
\* page, bbox.left and bbox.top are equal; the width and height of the boxes
\* never change the result.
C12_PdfByAnchor ==
    (BothTagged("pdf") /\ Has(call.c, "bbox") /\ Has(call.active, "bbox")) =>
        /\ ret.value = "true" <=>
               /\ Str(call.c, "sourceId") = Str(call.active, "sourceId")
               /\ Num(call.c, "page") = Num(call.active, "page")
               /\ call.c.bbox.left = call.active.bbox.left
               /\ call.c.bbox.top = call.active.bbox.top
        /\ ret.value \in {"true", "false"}
        /\ \A wh \in BoxSizes :
               citationMatches([call.c EXCEPT !.bbox.width = wh[1],
                                              !.bbox.height = wh[2]],
                               call.active) = ret.value

\* two pdf citations with the same anchor and boxes of different sizes matched
C12_Witness ==
    /\ BothTagged("pdf")
    /\ Has(call.c, "bbox") /\ Has(call.active, "bbox")
    /\ call.c.bbox.width # call.active.bbox.width
    /\ call.c.bbox.height # call.active.bbox.height
    /\ ret.value = "true"

\* C13: for two text citations, citationMatches is true exactly when sourceId,
\* startOffset and endOffset are equal; the snippet never changes the result.
C13_TextByOffsets ==
    BothTagged("text") =>
        /\ ret.value = "true" <=>
               /\ Str(call.c, "sourceId") = Str(call.active, "sourceId")
               /\ Num(call.c, "startOffset") = Num(call.active, "startOffset")
               /\ Num(call.c, "endOffset") = Num(call.active, "endOffset")
        /\ ret.value \in {"true", "false"}
        /\ \A sn \in Snippets :
               Has(call.c, "snippet") =>
                   citationMatches([call.c EXCEPT !.snippet = sn], call.active)
                       = ret.value

\* two text citations with the same start and different ends did not match
C13_Witness ==
    /\ BothTagged("text")
    /\ call.c.sourceId = call.active.sourceId
    /\ Num(call.c, "startOffset") = Num(call.active, "startOffset")
    /\ Num(call.c, "endOffset") # Num(call.active, "endOffset")
    /\ ret.value = "false"

\* C14: for two md citations, a citation with a table region (tableIndex
\* present) matches the active one exactly when sourceId, tableIndex, startRow,
\* endRow, startCol and endCol are equal, never on its snippet alone; a
\* snippet-only citation matches exactly when sourceId and snippet are equal.
C14_MdByRegionOrSnippet ==
    BothTagged("md") =>
        IF Num(call.c, "tableIndex") # Undef
        THEN ret.value = "true" <=>
                 /\ Str(call.c, "sourceId") = Str(call.active, "sourceId")
                 /\ Num(call.c, "tableIndex") = Num(call.active, "tableIndex")
                 /\ Num(call.c, "startRow") = Num(call.active, "startRow")
                 /\ Num(call.c, "endRow") = Num(call.active, "endRow")
                 /\ Num(call.c, "startCol") = Num(call.active, "startCol")
                 /\ Num(call.c, "endCol") = Num(call.active, "endCol")
        ELSE ret.value = "true" <=>
                 /\ Str(call.c, "sourceId") = Str(call.active, "sourceId")
                 /\ Snippet(call.c) = Snippet(call.active)

\* C15: citationMatches is total: for every citation normalizeCitation can
\* return (the pdf citation built from a legacy record without page or bbox
\* included) and every active citation, it returns true or false and never
\* raises an error.
C15_Total ==
    (Matched /\ call.c \in {normalizeCitation(r) : r \in RawCitations}) =>
        ret.value \in {"true", "false"}

\* citationMatches(c, active) holds (no citation is active: it does not)
MatchesActive(c, active) ==
    active # NoCitation /\ citationMatches(c, active) = "true"

\* C16: the data panel decides highlighting as citationMatches does, for
\* citations of every kind: a badge is marked active exactly when
\* citationMatches holds for its citation, a field row exactly when it holds
\* for at least one of the row's citations, and computing either never fails.
C16_PanelFollowsCitationMatches ==
    ret.fn = "FieldRow" =>
        /\ \A i \in DOMAIN call.citations :
               /\ ret.badges[i] \in {"true", "false"}
               /\ ret.badges[i] = "true" <=>
                      MatchesActive(call.citations[i], call.active)
        /\ ret.row \in {"true", "false"}
        /\ ret.row = "true" <=>
               \E i \in DOMAIN call.citations :
                   MatchesActive(call.citations[i], call.active)

\* raw.type is "text" or "md"
TaggedTextOrMd(raw) == Has(raw, "type") /\ raw.type \in {"text", "md"}

\* C17: normalizeCitation(raw) returns raw itself when raw.type is "text" or
\* "md"; for every other raw record (type missing, "pdf" or anything else) it
\* returns a record of exactly type = "pdf" and the sourceId, page and bbox of
\* raw, every other field of raw dropped.
C17_NormalizeCitationShape ==
    ret.fn = "normalizeCitation" =>
        IF TaggedTextOrMd(call.raw)
        THEN ret.value = call.raw
        ELSE /\ DOMAIN ret.value \subseteq {"type", "sourceId", "page", "bbox"}
             /\ ret.value.type = "pdf"
             /\ \A f \in {"sourceId", "page", "bbox"} :
                    /\ Has(ret.value, f) <=> Has(call.raw, f)
                    /\ Has(call.raw, f) => ret.value[f] = call.raw[f]

\* a record tagged "pdf" that carries one more field was normalized
C17_Witness ==
    /\ ret.fn = "normalizeCitation"
    /\ Str(call.raw, "type") = "pdf"
    /\ Has(call.raw, "extra") /\ Has(call.raw, "bbox")
    /\ ~Has(ret.value, "extra")

\* C18: normalizeCitation is idempotent: normalizing its result again gives
\* the same record, field by field; the same holds for normalizeSource.
C18_Idempotent ==
    ret.fn \in {"normalizeCitation", "normalizeSource"} => ret.again = ret.value

\* an untagged legacy record with a page was normalized into another record,
\* and normalized again
C18_Witness ==
    /\ ret.fn = "normalizeCitation"
    /\ ~Has(call.raw, "type") /\ Has(call.raw, "page")
    /\ ret.value # call.raw
    /\ ret.again = ret.value

\* C19: normalizeSource(raw) sets type to "pdf" when raw has no type (absent
\* or null), keeps raw.type when it is present, and leaves every other field
\* of raw as it is.
C19_NormalizeSourceDefaultsType ==
    ret.fn = "normalizeSource" =>
        /\ ret.value.type = IF Has(call.raw, "type") /\ call.raw.type # Null
                            THEN call.raw.type ELSE "pdf"
        /\ DOMAIN ret.value = DOMAIN call.raw \cup {"type"}
        /\ \A f \in DOMAIN call.raw \ {"type"} : ret.value[f] = call.raw[f]

\* a source whose type is null was normalized, its other fields kept
C19_Witness ==
    /\ ret.fn = "normalizeSource"
    /\ Str(call.raw, "type") = Null /\ Has(call.raw, "mdFile")
    /\ ret.value.type = "pdf"
    /\ ret.value.mdFile = call.raw.mdFile

\* the citations list of a raw field ((f.citations || []))
RawCitationsOf(f) == IF Has(f, "citations") THEN f.citations ELSE <<>>

\* C20: loading a payload with legacy data does not fail and removes no
\* duplicate: each field's citation list has the length and order of the raw
\* list, each entry is normalizeCitation of the raw entry (an untagged entry
\* becomes a pdf citation), repeated entries stay repeated, and a field
\* without a citations list gets the empty list.
C20_LoadKeepsEveryCitation ==
    ret.fn = "load" =>
        /\ DOMAIN ret.value.fields = DOMAIN call.raw.fields
        /\ \A i \in DOMAIN call.raw.fields :
               LET rc == RawCitationsOf(call.raw.fields[i])
                   lc == ret.value.fields[i].citations
               IN  /\ Len(lc) = Len(rc)
                   /\ \A j \in 1..Len(rc) :
                          /\ lc[j] = normalizeCitation(rc[j])
                          /\ ~Has(rc[j], "type") => lc[j].type = "pdf"

\* a field listing the same untagged citation twice was loaded
C20_Witness ==
    /\ ret.fn = "load"
    /\ \E i \in DOMAIN call.raw.fields :
           LET rc == RawCitationsOf(call.raw.fields[i])
           IN  /\ Len(rc) = 2 /\ rc[1] = rc[2] /\ ~Has(rc[1], "type")
               /\ Len(ret.value.fields[i].citations) = 2

\* record r carries field f (a key whose value is undefined carries nothing)
Carries(r, f) == IF f \in {"bbox", "snippet"} THEN Has(r, f) ELSE Num(r, f) # Undef

\* the fields that belong to another tag than t
ForeignFields(t) ==
    CASE t = "pdf"  -> {"startOffset", "endOffset", "snippet", "tableIndex",
                        "startRow", "endRow", "startCol", "endCol"}
      [] t = "text" -> {"page", "bbox", "tableIndex", "startRow", "endRow",
                        "startCol", "endCol"}
      [] t = "md"   -> {"page", "bbox", "startOffset", "endOffset"}
      [] OTHER      -> {}

\* r carries no field of another tag than its own
OwnFieldsOnly(r) == \A f \in ForeignFields(r.type) : ~Carries(r, f)

\* the active citation, as handleCitationClick built it, carries only the
\* fields of its tag
ActiveOwnFields == activeCitation # NoCitation => OwnFieldsOnly(activeCitation)

\* C21: tag invariant: every citation normalizeCitation returns, and every
\* active citation handleCitationClick builds, carries only the fields of its
\* own tag (a pdf one no offsets, snippet or table indices; a text one no page,
\* bbox or table indices; an md one no page, bbox or offsets).
C21_OwnFieldsOnly ==
    /\ ret.fn = "normalizeCitation" => OwnFieldsOnly(ret.value)
    /\ ActiveOwnFields

\* C22: out-of-range navigation is clamped: after any sequence of citation
\* clicks, Prev/Next page changes and source-tab selections, the current page
\* lies in 1..pageCount of the displayed source, also when a clicked pdf
\* citation names a page beyond the page count of its source.
C22_PageInRange ==
    ActiveSource # NoSource =>
        (1 <= currentPage /\ currentPage <= ActiveSource.pageCount)

\* the text citation with offsets 10 and 25 was rendered against a document of
\* 12 characters
Beyond12 ==
    /\ ret.fn = "TextViewer"
    /\ Len(call.content) = 12
    /\ call.active.type = "text"
    /\ call.active.startOffset = 10 /\ call.active.endOffset = 25

\* C23 as stated: a text citation with startOffset 10 and endOffset 25 shown
\* against a 12-character document produces an empty highlighted slice and no
\* error.
C23_EmptySlice == Beyond12 => ret.value.highlighted = <<>>

\* C23: a text citation with startOffset 10 and endOffset 25 shown against a
\* 12-character document has its end clamped to 12: the highlighted slice is
\* the document's characters 10 and 11, before is the first ten characters,
\* after is empty, and no error is raised.  For any offsets the three slices
\* concatenate to the document, and the highlighted slice is empty exactly
\* when the clamped start is not below the clamped end.
C23_ClampedSlice ==
    ret.fn = "TextViewer" =>
        /\ ret.value.before \o ret.value.highlighted \o ret.value.after = call.content
        /\ Beyond12 =>
               /\ ret.value.before = SubSeq(call.content, 1, 10)
               /\ ret.value.highlighted = SubSeq(call.content, 11, 12)
               /\ ret.value.after = <<>>
        /\ call.active.type = "text" =>
               LET n == Len(call.content)
                   a == Max(0, Min(call.active.startOffset, n))
                   b == Min(call.active.endOffset, n)
               IN  /\ Len(ret.value.before) = a
                   /\ (ret.value.highlighted = <<>>) <=> (a >= b)

\* the citation 10..25 was rendered against the 12-character document and two
\* characters are highlighted
C23_Witness == Beyond12 /\ Len(ret.value.highlighted) = 2

\* the tables of the document the TextViewer shows
RenderedTables ==
    IF TxtView(txt, CurrentType) = "md" THEN MdTables(txt.content) ELSE <<>>

\* this step is the animation-frame callback of the pending table citation
TableFrameStep ==
    txt.raf # NoCitation /\ txt'.raf = NoCitation /\ lastEvent'.kind = "tableFrame"

\* first and last row, first and last column of a table citation
FirstRow(ac) == IF ac.startRow = Undef THEN 0 ELSE ac.startRow
LastRow(ac) == IF ac.endRow = Undef THEN FirstRow(ac) ELSE ac.endRow
FirstCol(ac) == ac.startCol
LastCol(ac) == IF ac.endCol = Undef THEN FirstCol(ac) ELSE ac.endCol

\* C24: for an active md citation with tableIndex t, a row range and no column
\* range, the table renderer leaves exactly the rows r0..r1 of the t-th table
\* of the rendered document highlighted: no other row, no cell, nothing in
\* another table, and nothing left from an earlier activation.
C24_RowsExactly ==
    [][(TableFrameStep /\ txt.raf.startCol = Undef) =>
          txt'.hl = {e \in TableElements(RenderedTables) :
                        /\ e.t = txt.raf.tableIndex
                        /\ e.c = Undef
                        /\ FirstRow(txt.raf) <= e.r /\ e.r <= LastRow(txt.raf)}]_vars

\* rows 0 and 1 of the second table have been marked for the citation of rows
\* 0..1 without columns
C24_Witness ==
    /\ lastEvent.kind = "tableFrame"
    /\ activeCitation # NoCitation
    /\ activeCitation.type = "md"
    /\ activeCitation.tableIndex = 1
    /\ activeCitation.startRow = 0 /\ activeCitation.endRow = 1
    /\ activeCitation.startCol = Undef
    /\ txt.hl = {[t |-> 1, r |-> 0, c |-> Undef], [t |-> 1, r |-> 1, c |-> Undef]}

\* C25: for an active md table citation with a column range, the renderer
\* highlights, in each row of the row range, exactly the cells of columns
\* startCol..endCol and no whole row; a missing endRow is startRow, a missing
\* endCol is startCol; rows, cells and tables that do not exist are skipped.
C25_CellsExactly ==
    [][(TableFrameStep /\ txt.raf.startCol # Undef) =>
          txt'.hl = {e \in TableElements(RenderedTables) :
                        /\ e.t = txt.raf.tableIndex
                        /\ e.c # Undef
                        /\ FirstRow(txt.raf) <= e.r /\ e.r <= LastRow(txt.raf)
                        /\ FirstCol(txt.raf) <= e.c /\ e.c <= LastCol(txt.raf)}]_vars

\* the citation of rows 1..3 and columns 0..2 of the second table, which has
\* two rows and a single cell in its row 1, has marked that cell alone
C25_Witness ==
    /\ lastEvent.kind = "tableFrame"
    /\ activeCitation # NoCitation
    /\ activeCitation.type = "md"
    /\ activeCitation.tableIndex = 1
    /\ activeCitation.startRow = 1 /\ activeCitation.endRow = 3
    /\ activeCitation.startCol = 0 /\ activeCitation.endCol = 2
    /\ txt.hl = {[t |-> 1, r |-> 1, c |-> 0]}

\* processedContent was computed for a snippet-only md citation
SnippetRendered ==
    /\ ret.fn = "processedContent"
    /\ call.active.type = "md"
    /\ call.active.tableIndex = Undef

\* the highlight marks of a markdown source
MarksIn(text) == {i \in DOMAIN text : text[i] = MarkOpen}

\* C26: for an active snippet-only md citation the renderer wraps exactly the
\* first occurrence of the snippet in the document in the highlight mark, the
\* text before and after it unchanged; when the snippet does not occur the
\* content is rendered unchanged, with no highlight and no error.
C26_FirstOccurrenceMarked ==
    SnippetRendered =>
        LET c  == call.content
            sn == call.active.snippet
            at(i) == SubSeq(c, i + 1, i + Len(sn)) = sn
        IN  IF \E i \in 0..(Len(c) - Len(sn)) : at(i)
            THEN \E i \in 0..(Len(c) - Len(sn)) :
                    /\ at(i)
                    /\ \A j \in 0..(i - 1) : ~at(j)
                    /\ SubSeq(ret.value, 1, i) = SubSeq(c, 1, i)
                    /\ ret.value[i + 1] = MarkOpen
                    /\ SubSeq(ret.value, i + 2, i + 1 + Len(sn)) = sn
                    /\ ret.value[i + 2 + Len(sn)] = MarkClose
                    /\ SubSeq(ret.value, i + 3 + Len(sn), Len(ret.value))
                           = SubSeq(c, i + 1 + Len(sn), Len(c))
                    /\ Cardinality(MarksIn(ret.value)) = 1
            ELSE ret.value = c

\* a snippet that occurs twice in the document was marked at its first
\* occurrence, which is not the start of the document
C26_Witness ==
    /\ SnippetRendered
    /\ Cardinality(Occurrences(call.content, call.active.snippet)) = 2
    /\ IndexOf(call.content, call.active.snippet) > 0
    /\ ret.value[IndexOf(call.content, call.active.snippet) + 1] = MarkOpen

\* the PDF overlay shows a box only for the active citation, which is a pdf
\* citation of the displayed source and of the current page
PdfDrawsItsOwn ==
    (pdf.mounted /\ pdf.overlay.cit # NoCitation) =>
        /\ activeCitation.type = "pdf"
        /\ pdf.overlay.cit = activeCitation
        /\ activeCitation.sourceId = activeSourceId
        /\ activeCitation.page = currentPage

\* the text viewer highlights only for an active text or md citation of the
\* displayed source whose tag fits the type of the file
TextHighlightsItsOwn ==
    TxtHighlight # "none" =>
        /\ activeCitation.type \in {"text", "md"}
        /\ activeCitation.sourceId = activeSourceId
        /\ activeCitation.type = "text" => CurrentType \in {"text", "csv"}
        /\ activeCitation.type = "md" => CurrentType = "md"

\* at most one viewer is mounted and receives a citation
OneViewerReceives ==
    /\ ~(pdf.mounted /\ txt.mounted)
    /\ ~(/\ ActivePdfCitation(activeCitation, activeSourceId) # NoCitation
         /\ ActiveViewerCitation(activeCitation, activeSourceId) # NoCitation)

\* C27: a renderer draws a highlight only for a citation meant for what it
\* shows: the PDF overlay only for an active pdf citation of the displayed
\* source and the current page (it is clear otherwise), the text viewer only
\* for an active text or md citation of the displayed source whose tag fits
\* the file type; at most one viewer receives a citation.
C27_HighlightOnlyForItsCitation ==
    PdfDrawsItsOwn /\ TextHighlightsItsOwn /\ OneViewerReceives

\* the mounted viewer shows its error message
ViewerFailed ==
    \/ pdf.mounted /\ pdf.error # None
    \/ txt.mounted /\ txt.error # None

\* the mounted viewer shows no error, or a load, render or fetch is pending
AttemptUnderWay ==
    \/ pdf.mounted /\ (pdf.error = None \/ pdf.loads # {} \/ pdf.renders # {})
    \/ txt.mounted /\ (txt.error = None \/ txt.fetches # {})

\* C28: a load or render failure is recoverable per view: selecting the failed
\* viewer's source again in the source tabs starts a new attempt (after which
\* the error message is gone or an operation is pending), and the failure
\* itself changes neither the displayed source, nor the current page, nor the
\* active citation.
C28_ReselectRetries ==
    [][/\ (/\ lastEvent'.kind = "sourceChange"
           /\ activeSourceId' = activeSourceId
           /\ ViewerFailed) => AttemptUnderWay'
       /\ (/\ lastEvent'.kind \in {"loadSettled", "renderSettled", "fetchSettled"}
           /\ ViewerFailed') =>
              UNCHANGED <<activeSourceId, currentPage, activeCitation>>]_vars

\* C29: uniform dwell: every highlight renderer (PDF overlay, text / csv, md
\* table, md snippet) schedules the start of its fade 15000 ms after the
\* activation, and none schedules it earlier.
C29_UniformDwell == ret.fn = "setTimeout" => ret.delay = 15000

\* the stripped snippet occurs verbatim in the stripped text of block i
Contains(i) == Occurs(StripHtml(call.snippet), StripHtml(call.blocks[i]))

\* block i and the snippet have no substring relation
FuzzyOnly(i) ==
    /\ ~Contains(i)
    /\ ~Occurs(StripHtml(call.blocks[i]), StripHtml(call.snippet))

\* C30: snippet resolver scoring: a block whose text contains the stripped
\* snippet verbatim scores at least 0.5, a block with no substring relation
\* with the snippet scores at most 0.49; hence the resolver never selects a
\* fuzzy-only block when some block contains the snippet.
C30_SubstringBeatsFuzzy ==
    ret.fn = "find_citation" =>
        /\ \A i \in DOMAIN call.blocks :
               /\ Contains(i) => ret.scores[i] >= 500
               /\ FuzzyOnly(i) => ret.scores[i] <= 490
        /\ (\E i \in DOMAIN call.blocks : Contains(i)) =>
               /\ ret.selected # {}
               /\ \A i \in ret.selected : ~FuzzyOnly(i)

\* the snippet occurs in the first block; the second block holds the snippet's
\* characters in another order and has the fuzzy ratio 0.5, capped to 0.49;
\* the first block is selected
C30_Witness ==
    /\ ret.fn = "find_citation"
    /\ Len(call.blocks) = 2
    /\ Contains(1) /\ FuzzyOnly(2)
    /\ FuzzyScore(StripHtml(call.snippet), StripHtml(call.blocks[2])) >= 500
    /\ ret.scores[2] = 490
    /\ ret.selected = {1}

\* the blocks of the maximum score
TopBlocks ==
    {i \in DOMAIN call.blocks : \A j \in DOMAIN call.blocks :
        ret.scores[j] <= ret.scores[i]}

\* the same blocks in the opposite order
Reversed(blocks) == [i \in DOMAIN blocks |-> blocks[Len(blocks) + 1 - i]]

\* C31: snippet resolver tie-break: when two or more blocks reach the same
\* maximum score (of at least 0.1), the resolver returns a block of the
\* shortest text among them, and the blocks it returns from the list in the
\* opposite order are the same blocks.
C31_ShorterOnTies ==
    (ret.fn = "find_citation" /\ Cardinality(TopBlocks) >= 2
        /\ \A i \in TopBlocks : ret.scores[i] >= 100) =>
        /\ ret.selected # {}
        /\ \A i \in ret.selected : \A j \in TopBlocks :
               Len(StripHtml(call.blocks[i])) <= Len(StripHtml(call.blocks[j]))
        /\ FindCitation(call.snippet, Reversed(call.blocks))
               = {Len(call.blocks) + 1 - i : i \in ret.selected}

\* two blocks tie at the capped 0.49, the one of three characters comes first,
\* and the resolver returns the second, of two characters
C31_Witness ==
    /\ ret.fn = "find_citation"
    /\ Len(call.blocks) = 2
    /\ ret.scores[1] = ret.scores[2] /\ ret.scores[1] = 490
    /\ Len(StripHtml(call.blocks[1])) > Len(StripHtml(call.blocks[2]))
    /\ ret.selected = {2}

\* no block scores 0.1 or more against the snippet (so also: no block at all)
BelowThreshold(snippet, blocks) ==
    \A i \in DOMAIN blocks : Scores(snippet, blocks)[i] < 100

\* C32: snippet resolver threshold and failure semantics: the resolver returns
\* unresolved exactly when the maximum score over the blocks of the source is
\* below 0.1, also when the source has no blocks; it returns a result for
\* every input; and within one field each citation is unresolved exactly when
\* its own maximum is below 0.1, whatever happens to the other citations.
C32_UnresolvedBelowThreshold ==
    /\ ret.fn = "find_citation" =>
           /\ ret.selected \subseteq DOMAIN call.blocks
           /\ ret.selected = {} <=> BelowThreshold(call.snippet, call.blocks)
    /\ ret.fn = "resolveCitations" =>
           /\ DOMAIN ret.resolved = DOMAIN call.snippets
           /\ \A k \in DOMAIN call.snippets :
                  /\ ret.resolved[k] \subseteq DOMAIN call.blocks
                  /\ ret.resolved[k] = {}
                         <=> BelowThreshold(call.snippets[k], call.blocks)

\* a field of two citations: the first scores 2/21 against the best block and
\* is unresolved, the second is resolved
C32_Witness ==
    /\ ret.fn = "resolveCitations"
    /\ Len(call.snippets) = 2
    /\ \E i \in DOMAIN call.blocks :
           /\ Scores(call.snippets[1], call.blocks)[i] = 95
           /\ \A j \in DOMAIN call.blocks :
                  Scores(call.snippets[1], call.blocks)[j] <= 95
    /\ ret.resolved[1] = {}
    /\ ret.resolved[2] # {}

\* C33: offset clamping in the text renderer: for every text citation (offsets
\* negative, reversed or beyond the end included) and every document of
\* length n there are start and end with 0 <= start <= end <= n such that
\* before is the document's characters [0, start), highlighted is [start, end)
\* and after is [end, n); start is the startOffset brought into 0..n, end is
\* the endOffset brought into start..n; the three slices concatenate to the
\* document.
C33_OffsetsClamped ==
    (ret.fn = "TextViewer" /\ call.active.type = "text") =>
        LET n     == Len(call.content)
            a     == call.active.startOffset
            b     == call.active.endOffset
            start == Len(ret.value.before)
            end   == start + Len(ret.value.highlighted)
        IN  /\ 0 <= start /\ start <= end /\ end <= n
            /\ start = (IF a < 0 THEN 0 ELSE IF a > n THEN n ELSE a)
            /\ end = (IF b < start THEN start ELSE IF b > n THEN n ELSE b)
            /\ ret.value.before = SubSeq(call.content, 1, start)
            /\ ret.value.highlighted = SubSeq(call.content, start + 1, end)
            /\ ret.value.after = SubSeq(call.content, end + 1, n)
            /\ ret.value.before \o ret.value.highlighted \o ret.value.after
                   = call.content

\* a citation with reversed offsets inside the document was rendered: nothing
\* is highlighted and the document is split at the start offset
C33_Witness ==
    /\ ret.fn = "TextViewer"
    /\ call.active.type = "text"
    /\ call.active.endOffset >= 0
    /\ call.active.endOffset < call.active.startOffset
    /\ call.active.startOffset < Len(call.content)
    /\ ret.value.highlighted = <<>>
    /\ Len(ret.value.before) = call.active.startOffset
    /\ ret.value.after # <<>>

\* every page asked of a document, being rendered or on the canvas, is a page
\* of that document
PagesAsked ==
    {[doc |-> r.doc, page |-> r.page] : r \in {q \in pdf.renders : q.doc # None}}
    \cup ({pdf.renderTaskRef, pdf.canvas} \ {NoTask})

\* a step in which the PdfViewer is given another file while it still holds
\* the document of the previous one, and a page that document does not have
StaleDocStep ==
    /\ pdf.mounted /\ pdf'.mounted
    /\ pdf.pdfDoc # None
    /\ ActiveSource'.file # ActiveSource.file
    /\ currentPage' \notin 1..NumPages(pdf.pdfDoc)

\* C34: the page render step never asks the loaded document for a page outside
\* 1..numPages: every pending getPage, every render task and the canvas are
\* for a page of their document; and in the render that follows a change of
\* source, the render effect run with the previous document still held and a
\* page number beyond it starts no render and leaves the error as it is, and
\* no error is shown after that step.
C34_NoPageOutOfRange ==
    /\ [](\A q \in PagesAsked : q.page \in 1..NumPages(q.doc))
    /\ [][StaleDocStep =>
            LET v == RenderEffect(pdf, pdf.pdfDoc, currentPage', pdf.error = None)
            IN  /\ \A r \in v.renders : r.doc # None => r.page # currentPage'
                /\ v.error = pdf.error
                /\ pdf'.error = None
                /\ \A r \in pdf'.renders : r.doc = None]_vars

\* a citation of page 2 of another source was clicked while the one-page
\* document was shown: its page is still on the canvas, no render was started
\* and no error is shown
C34_Witness ==
    /\ lastEvent = Event("citationClick", TRUE)
    /\ pdf.mounted
    /\ pdf.canvas.doc # None
    /\ pdf.canvas.doc # ActiveSource.file
    /\ currentPage > NumPages(pdf.canvas.doc)
    /\ pdf.error = None
    /\ \A r \in pdf.renders : r.doc = None

\* the citations whose click gives this state: the page and the active
\* citation are the ones handleCitationClick(c) sets
Clicked ==
    {c \in Citations :
        /\ currentPage = (IF c.type = "pdf" THEN c.page ELSE 1)
        /\ activeCitation = ToActive(c)}

\* C35: click round trip: for every citation c of the payload, of any kind,
\* in the state right after handleCitationClick(c) the active citation a
\* satisfies citationMatches(c, a), and the source displayed is the
\* citation's.
C35_ClickRoundTrip ==
    lastEvent.kind = "citationClick" =>
        /\ Clicked # {}
        /\ \A c \in Clicked :
               /\ citationMatches(c, activeCitation) = "true"
               /\ activeSourceId = c.sourceId

\* a citation of each kind (pdf, text, md table region, md snippet) can be
\* clicked; here the snippet-only md citation was, and it matches the active
\* citation
C35_Witness ==
    /\ lastEvent.kind = "citationClick"
    /\ activeCitation.type = "md"
    /\ Num(activeCitation, "tableIndex") = Undef
    /\ \E c \in Citations :
           /\ c.type = "md" /\ c.tableIndex = Undef
           /\ citationMatches(c, activeCitation) = "true"

\* C36: after the payload has loaded with at least one source, the displayed
\* source id is the id of a source of the payload in every reachable state.
C36_DisplayedSourceKnown ==
    Len(Sources(data)) > 0 => activeSourceId \in SourceIds(data)

\* the highlight of the active citation is gone from the rendered page and
\* nothing of it is pending: no dwell timer, no fade animation
HighlightCleared ==
    /\ pdf.mounted /\ pdf.error = None
    /\ pdf.renderedDimensions # NullDims
    /\ activeCitation # NoCitation
    /\ activeCitation.type = "pdf"
    /\ activeCitation.sourceId = activeSourceId
    /\ activeCitation.page = currentPage
    /\ pdf.overlay = BlankOverlay
    /\ pdf.fadeTimer = NoTimer
    /\ pdf.fadeLoop = NoLoop

\* C37: a highlight that has faded and cleared stays cleared until a new
\* activation: from a state in which it is cleared, no step other than a
\* citation click (a resize, a completed re-render) draws the highlight again
\* or starts a dwell timer or a fade.
C37_FadedStaysCleared ==
    [][(HighlightCleared /\ lastEvent'.kind # "citationClick") =>
          /\ pdf'.overlay = BlankOverlay
          /\ pdf'.fadeTimer = NoTimer
          /\ pdf'.fadeLoop = NoLoop]_vars

====
